---- MODULE Spec2Model ----
(***************************************************************************)
(* Model of the numeric-backend registries of diffeqzoo / odezoo.          *)
(*                                                                         *)
(*   diffeqzoo.backend  : src/diffeqzoo/__init__.py  (class backend)       *)
(*   odezoo.backend     : src/odezoo/__init__.py     (_BackendImplementation)*)
(*                                                                         *)
(* Python values are tagged records [type, val]; strings are sequences of  *)
(* one-character strings so that str.lower() is computed character by      *)
(* character.  Both singletons live in one interpreter: they share the     *)
(* set of installed engines and the set of modules imported so far.        *)
(* warnings.warn is taken under the default filter (it does not raise).    *)
(***************************************************************************)
EXTENDS Integers, Sequences, FiniteSets, TLC

VARIABLES
    backend,      \* the singleton diffeqzoo.backend (fields of the instance)
    oz_backend,   \* the singleton odezoo.backend
    installed,    \* engines that can be imported in this interpreter
    located,      \* modules imported so far by the registries' import statements
    last,         \* the call made last and how it ended
    prev,         \* the call made before that one
    ncalls,       \* number of calls made
    tx,           \* the catalog / transform call made last and how it ended
    threads,      \* per thread: the selection call it is executing and where it is
    held          \* what the caller keeps between its calls (initial values, functions)

vars == <<backend, oz_backend, installed, located, last, prev, ncalls, tx, threads, held>>

(* ------------------------------ bounds -------------------------------- *)
MaxCalls == 3

(* --------------------------- Python values ---------------------------- *)
None == [type |-> "NoneType", val |-> <<>>]

Str(chars) == [type |-> "str", val |-> chars]

Module(m) == [type |-> "module", val |-> <<m>>]

(* exceptions are named by their class; NoExc is a normal return *)
NoExc == "NoExc"

(* ----------------------------- str.lower ------------------------------ *)
UpperToLower ==
    [c \in {"A", "J", "M", "N", "P", "U", "X", "Y"} |->
        CASE c = "A" -> "a" [] c = "J" -> "j" [] c = "M" -> "m"
          [] c = "N" -> "n" [] c = "P" -> "p" [] c = "U" -> "u"
          [] c = "X" -> "x" [] c = "Y" -> "y"]

LowerChar(c) == IF c \in DOMAIN UpperToLower THEN UpperToLower[c] ELSE c

lower(s) == Str([i \in 1..Len(s.val) |-> LowerChar(s.val[i])])

(* --------------------------- the environment -------------------------- *)
Engines == {"jax", "numpy"}

EngineOf(m) == IF m \in {"jax.numpy", "jax.random"} THEN "jax" ELSE "numpy"

(* the interpreters the registries run in: NumPy is always there (JAX is
   built on it), JAX may or may not be installed *)
Environments == {{"numpy"}, {"numpy", "jax"}}

(* import m: succeeds iff the engine that ships m is installed *)
CanImport(m, inst) == EngineOf(m) \in inst

(* the names a caller may pass: the two tokens in several spellings, and
   strings that are not engine names *)
NameInputs ==
    { Str(<<"n", "u", "m", "p", "y">>), Str(<<"N", "u", "m", "P", "y">>),
      Str(<<"N", "U", "M", "P", "Y">>),
      Str(<<"j", "a", "x">>), Str(<<"J", "A", "X">>), Str(<<"J", "a", "x">>),
      Str(<<"j", "a", "x", "x">>), Str(<<"n", "u", "m", "p">>), Str(<<>>) }

(* ==================== diffeqzoo.backend (class backend) =============== *)

backend_init ==
    [backend_name |-> None, numpy_backend |-> None, random_backend |-> None]

name(self) == self.backend_name

(* faulty variant of has_been_selected: the registry never reports a
   selection *)
has_been_selected_never(self) == FALSE

has_been_selected(self) == self.numpy_backend # None

(* Result of a method call: the instance afterwards, the exception raised
   (or NoExc), the value returned, the modules imported, whether
   warnings.warn was called. *)
Result(self, exc, ret, imports, warned) ==
    [self |-> self, exc |-> exc, ret |-> ret, imports |-> imports, warned |-> warned]

(* Faulty variants of _select_backend, used to test that the properties
   below depend on the code: (a) an unknown name falls back to NumPy,
   (b) the JAX branch forgets the random handle, (c) an unknown name
   clears the registry before raising, (d) both engines are imported up
   front. *)
select_backend_default_numpy(self, backend_name, inst) ==
    IF backend_name = Str(<<"j", "a", "x">>) THEN
        IF ~CanImport("jax.numpy", inst)
        THEN Result(self, "ModuleNotFoundError", None, {}, FALSE)
        ELSE Result([self EXCEPT !.numpy_backend = Module("jax.numpy"),
                                 !.random_backend = Module("jax.random"),
                                 !.backend_name = backend_name],
                    NoExc, None, {"jax.numpy", "jax.random"}, FALSE)
    ELSE
        IF ~CanImport("numpy", inst)
        THEN Result(self, "ModuleNotFoundError", None, {}, FALSE)
        ELSE Result([self EXCEPT !.numpy_backend = Module("numpy"),
                                 !.random_backend = Module("numpy.random"),
                                 !.backend_name = Str(<<"n", "u", "m", "p", "y">>)],
                    NoExc, None, {"numpy", "numpy.random"}, FALSE)

select_backend_numpy_only(self, backend_name, inst) ==
    IF backend_name = Str(<<"j", "a", "x">>) THEN
        IF ~CanImport("jax.numpy", inst)
        THEN Result(self, "ModuleNotFoundError", None, {}, FALSE)
        ELSE Result([self EXCEPT !.numpy_backend = Module("jax.numpy"),
                                 !.backend_name = backend_name],
                    NoExc, None, {"jax.numpy"}, FALSE)
    ELSE IF backend_name = Str(<<"n", "u", "m", "p", "y">>) THEN
        IF ~CanImport("numpy", inst)
        THEN Result(self, "ModuleNotFoundError", None, {}, FALSE)
        ELSE Result([self EXCEPT !.numpy_backend = Module("numpy"),
                                 !.random_backend = Module("numpy.random"),
                                 !.backend_name = backend_name],
                    NoExc, None, {"numpy", "numpy.random"}, FALSE)
    ELSE Result(self, "ValueError", None, {}, FALSE)

select_backend_reset(self, backend_name, inst) ==
    IF backend_name = Str(<<"j", "a", "x">>) THEN
        IF ~CanImport("jax.numpy", inst)
        THEN Result(self, "ModuleNotFoundError", None, {}, FALSE)
        ELSE Result([self EXCEPT !.numpy_backend = Module("jax.numpy"),
                                 !.random_backend = Module("jax.random"),
                                 !.backend_name = backend_name],
                    NoExc, None, {"jax.numpy", "jax.random"}, FALSE)
    ELSE IF backend_name = Str(<<"n", "u", "m", "p", "y">>) THEN
        IF ~CanImport("numpy", inst)
        THEN Result(self, "ModuleNotFoundError", None, {}, FALSE)
        ELSE Result([self EXCEPT !.numpy_backend = Module("numpy"),
                                 !.random_backend = Module("numpy.random"),
                                 !.backend_name = backend_name],
                    NoExc, None, {"numpy", "numpy.random"}, FALSE)
    ELSE Result(backend_init, "ValueError", None, {}, FALSE)

select_backend_eager(self, backend_name, inst) ==
    IF ~CanImport("jax.numpy", inst) \/ ~CanImport("numpy", inst)
    THEN Result(self, "ModuleNotFoundError", None, {}, FALSE)
    ELSE IF backend_name = Str(<<"j", "a", "x">>) THEN
        Result([self EXCEPT !.numpy_backend = Module("jax.numpy"),
                            !.random_backend = Module("jax.random"),
                            !.backend_name = backend_name],
               NoExc, None, {"jax.numpy", "jax.random", "numpy", "numpy.random"}, FALSE)
    ELSE IF backend_name = Str(<<"n", "u", "m", "p", "y">>) THEN
        Result([self EXCEPT !.numpy_backend = Module("numpy"),
                            !.random_backend = Module("numpy.random"),
                            !.backend_name = backend_name],
               NoExc, None, {"jax.numpy", "jax.random", "numpy", "numpy.random"}, FALSE)
    ELSE Result(self, "ValueError", None, {"jax.numpy", "jax.random", "numpy", "numpy.random"}, FALSE)

(* faulty variant of _select_backend: the name is recorded before the
   engine's modules are imported, so a failing import leaves the new name
   next to the old handles *)
select_backend_name_first(self, backend_name, inst) ==
    IF backend_name = Str(<<"j", "a", "x">>) THEN
        IF ~CanImport("jax.numpy", inst)
        THEN Result([self EXCEPT !.backend_name = backend_name],
                    "ModuleNotFoundError", None, {}, FALSE)
        ELSE Result([self EXCEPT !.numpy_backend = Module("jax.numpy"),
                                 !.random_backend = Module("jax.random"),
                                 !.backend_name = backend_name],
                    NoExc, None, {"jax.numpy", "jax.random"}, FALSE)
    ELSE IF backend_name = Str(<<"n", "u", "m", "p", "y">>) THEN
        IF ~CanImport("numpy", inst)
        THEN Result([self EXCEPT !.backend_name = backend_name],
                    "ModuleNotFoundError", None, {}, FALSE)
        ELSE Result([self EXCEPT !.numpy_backend = Module("numpy"),
                                 !.random_backend = Module("numpy.random"),
                                 !.backend_name = backend_name],
                    NoExc, None, {"numpy", "numpy.random"}, FALSE)
    ELSE Result(self, "ValueError", None, {}, FALSE)

(* faulty variant of _select_backend: the name is assigned only while it
   is still unset, so a change_to rebinds the handles under the old name *)
select_backend_keeps_first_name(self, backend_name, inst) ==
    LET named == IF self.backend_name = None THEN backend_name ELSE self.backend_name
    IN
    IF backend_name = Str(<<"j", "a", "x">>) THEN
        IF ~CanImport("jax.numpy", inst)
        THEN Result(self, "ModuleNotFoundError", None, {}, FALSE)
        ELSE Result([self EXCEPT !.numpy_backend = Module("jax.numpy"),
                                 !.random_backend = Module("jax.random"),
                                 !.backend_name = named],
                    NoExc, None, {"jax.numpy", "jax.random"}, FALSE)
    ELSE IF backend_name = Str(<<"n", "u", "m", "p", "y">>) THEN
        IF ~CanImport("numpy", inst)
        THEN Result(self, "ModuleNotFoundError", None, {}, FALSE)
        ELSE Result([self EXCEPT !.numpy_backend = Module("numpy"),
                                 !.random_backend = Module("numpy.random"),
                                 !.backend_name = named],
                    NoExc, None, {"numpy", "numpy.random"}, FALSE)
    ELSE Result(self, "ValueError", None, {}, FALSE)

select_backend(self, backend_name, inst) ==
    IF backend_name = Str(<<"j", "a", "x">>) THEN
        IF ~CanImport("jax.numpy", inst)
        THEN Result(self, "ModuleNotFoundError", None, {}, FALSE)
        ELSE IF ~CanImport("jax.random", inst)
        THEN Result(self, "ModuleNotFoundError", None, {"jax.numpy"}, FALSE)
        ELSE Result([self EXCEPT !.numpy_backend = Module("jax.numpy"),
                                 !.random_backend = Module("jax.random"),
                                 !.backend_name = backend_name],
                    NoExc, None, {"jax.numpy", "jax.random"}, FALSE)
    ELSE IF backend_name = Str(<<"n", "u", "m", "p", "y">>) THEN
        IF ~CanImport("numpy", inst)
        THEN Result(self, "ModuleNotFoundError", None, {}, FALSE)
        ELSE IF ~CanImport("numpy.random", inst)
        THEN Result(self, "ModuleNotFoundError", None, {"numpy"}, FALSE)
        ELSE Result([self EXCEPT !.numpy_backend = Module("numpy"),
                                 !.random_backend = Module("numpy.random"),
                                 !.backend_name = backend_name],
                    NoExc, None, {"numpy", "numpy.random"}, FALSE)
    ELSE Result(self, "ValueError", None, {}, FALSE)

(* faulty variant of select: the "already selected" guard is missing *)
select_unguarded(self, backend_name, inst) ==
    select_backend(self, lower(backend_name), inst)

(* faulty variant of select: the name is validated before the "already
   selected" guard is evaluated *)
select_validates_first(self, backend_name, inst) ==
    IF lower(backend_name) \notin {Str(<<"j", "a", "x">>), Str(<<"n", "u", "m", "p", "y">>)}
    THEN Result(self, "ValueError", None, {}, FALSE)
    ELSE IF has_been_selected(self)
    THEN Result(self, "RuntimeError", None, {}, FALSE)
    ELSE select_backend(self, lower(backend_name), inst)

select(self, backend_name, inst) ==
    IF has_been_selected(self)
    THEN Result(self, "RuntimeError", None, {}, FALSE)
    ELSE select_backend(self, lower(backend_name), inst)

(* Faulty variants of change_to: (a) the "must select first" guard is
   missing, (b) the warning is never issued, (c) the warning is issued on
   every call, (d) the current name is compared with the argument as
   given, not lower-cased. *)
change_to_unguarded(self, backend_name, inst) ==
    LET warned == (self.backend_name = lower(backend_name))
        r == select_backend(self, lower(backend_name), inst)
    IN  [r EXCEPT !.warned = warned]

change_to_silent(self, backend_name, inst) ==
    IF ~has_been_selected(self)
    THEN Result(self, "RuntimeError", None, {}, FALSE)
    ELSE select_backend(self, lower(backend_name), inst)

change_to_always_warns(self, backend_name, inst) ==
    IF ~has_been_selected(self)
    THEN Result(self, "RuntimeError", None, {}, FALSE)
    ELSE LET r == select_backend(self, lower(backend_name), inst)
         IN  [r EXCEPT !.warned = TRUE]

change_to_case_sensitive(self, backend_name, inst) ==
    IF ~has_been_selected(self)
    THEN Result(self, "RuntimeError", None, {}, FALSE)
    ELSE LET warned == (self.backend_name = backend_name)
             r == select_backend(self, lower(backend_name), inst)
         IN  [r EXCEPT !.warned = warned]

change_to(self, backend_name, inst) ==
    IF ~has_been_selected(self)
    THEN Result(self, "RuntimeError", None, {}, FALSE)
    ELSE LET warned == (self.backend_name = lower(backend_name))
             r == select_backend(self, lower(backend_name), inst)
         IN  [r EXCEPT !.warned = warned]

(* faulty variant of the numpy accessor: the guard is missing *)
numpy_unguarded(self) ==
    Result(self, NoExc, self.numpy_backend, {}, FALSE)

numpy(self) ==
    IF ~has_been_selected(self)
    THEN Result(self, "RuntimeError", None, {}, FALSE)
    ELSE Result(self, NoExc, self.numpy_backend, {}, FALSE)

random(self) ==
    IF ~has_been_selected(self)
    THEN Result(self, "RuntimeError", None, {}, FALSE)
    ELSE Result(self, NoExc, self.random_backend, {}, FALSE)

(* ============== odezoo.backend (_BackendImplementation) =============== *)

oz_backend_init ==
    [backend_name |-> None, numpy_backend |-> None,
     np_import_cache |-> None, jnp_import_cache |-> None]

oz_has_been_selected(self) == self.numpy_backend # None

oz_select_backend(self, backend_name, inst) ==
    IF backend_name = Str(<<"j", "a", "x">>) THEN
        IF ~CanImport("jax.numpy", inst)
        THEN Result(self, "ModuleNotFoundError", None, {}, FALSE)
        ELSE Result([self EXCEPT !.jnp_import_cache = Module("jax.numpy"),
                                 !.numpy_backend = Module("jax.numpy"),
                                 !.backend_name = backend_name],
                    NoExc, None, {"jax.numpy"}, FALSE)
    ELSE IF backend_name = Str(<<"n", "u", "m", "p", "y">>) THEN
        IF ~CanImport("numpy", inst)
        THEN Result(self, "ModuleNotFoundError", None, {}, FALSE)
        ELSE Result([self EXCEPT !.np_import_cache = Module("numpy"),
                                 !.numpy_backend = Module("numpy"),
                                 !.backend_name = backend_name],
                    NoExc, None, {"numpy"}, FALSE)
    ELSE Result(self, "ValueError", None, {}, FALSE)

oz_select(self, backend_name, inst) ==
    IF oz_has_been_selected(self)
    THEN Result(self, "RuntimeError", None, {}, FALSE)
    ELSE oz_select_backend(self, lower(backend_name), inst)

oz_change_to(self, backend_name, inst) ==
    IF ~oz_has_been_selected(self)
    THEN Result(self, "RuntimeError", None, {}, FALSE)
    ELSE LET warned == (self.backend_name = lower(backend_name))
             r == oz_select_backend(self, lower(backend_name), inst)
         IN  [r EXCEPT !.warned = warned]

oz_numpy(self) ==
    IF ~oz_has_been_selected(self)
    THEN Result(self, "Exception", None, {}, FALSE)
    ELSE Result(self, NoExc, self.numpy_backend, {}, FALSE)

(* ============================ the state machine ======================= *)

Call(pkg, op, arg, r) ==
    [pkg |-> pkg, op |-> op, arg |-> arg,
     exc |-> r.exc, ret |-> r.ret, warned |-> r.warned, imports |-> r.imports]

NoCall ==
    [pkg |-> "none", op |-> "none", arg |-> None,
     exc |-> NoExc, ret |-> None, warned |-> FALSE, imports |-> {}]

(* -------------------------- threads of callers ------------------------ *)
(* The class holds no lock (src/diffeqzoo/__init__.py has no threading
   import), so the statements of select, change_to and _select_backend
   executed by different threads interleave.  A thread that is not inside
   a call is "idle"; one whose call has returned or raised is "done". *)
Threads == {"t1", "t2"}

Idle ==
    [pc |-> "idle", op |-> "none", arg |-> None, backend_name |-> None,
     numpy_local |-> None, random_local |-> None,
     exc |-> NoExc, warned |-> FALSE, during |-> {}, after |-> {},
     replaced |-> None,
     seen_numpy |-> None, seen_random |-> None, seen_name |-> None]

threads_init == [t \in Threads |-> Idle]

Init ==
    /\ backend = backend_init
    /\ oz_backend = oz_backend_init
    /\ installed \in Environments
    /\ located = {}
    /\ last = NoCall
    /\ prev = NoCall
    /\ ncalls = 0
    /\ tx = NoCall
    /\ threads = threads_init
    /\ held = None

Select ==
    /\ ncalls < MaxCalls
    /\ \E n \in NameInputs :
          LET r == select(backend, n, installed) IN
          /\ backend' = r.self
          /\ located' = located \cup r.imports
          /\ last' = Call("diffeqzoo", "select", n, r)
    /\ prev' = last
    /\ ncalls' = ncalls + 1
    /\ UNCHANGED <<oz_backend, installed, tx, threads, held>>

ChangeTo ==
    /\ ncalls < MaxCalls
    /\ \E n \in NameInputs :
          LET r == change_to(backend, n, installed) IN
          /\ backend' = r.self
          /\ located' = located \cup r.imports
          /\ last' = Call("diffeqzoo", "change_to", n, r)
    /\ prev' = last
    /\ ncalls' = ncalls + 1
    /\ UNCHANGED <<oz_backend, installed, tx, threads, held>>

ReadNumpy ==
    /\ ncalls < MaxCalls
    /\ LET r == numpy(backend) IN
          /\ backend' = r.self
          /\ last' = Call("diffeqzoo", "numpy", None, r)
    /\ prev' = last
    /\ ncalls' = ncalls + 1
    /\ UNCHANGED <<oz_backend, installed, located, tx, threads, held>>

ReadRandom ==
    /\ ncalls < MaxCalls
    /\ LET r == random(backend) IN
          /\ backend' = r.self
          /\ last' = Call("diffeqzoo", "random", None, r)
    /\ prev' = last
    /\ ncalls' = ncalls + 1
    /\ UNCHANGED <<oz_backend, installed, located, tx, threads, held>>

OzSelect ==
    /\ ncalls < MaxCalls
    /\ \E n \in NameInputs :
          LET r == oz_select(oz_backend, n, installed) IN
          /\ oz_backend' = r.self
          /\ located' = located \cup r.imports
          /\ last' = Call("odezoo", "select", n, r)
    /\ prev' = last
    /\ ncalls' = ncalls + 1
    /\ UNCHANGED <<backend, installed, tx, threads, held>>

OzChangeTo ==
    /\ ncalls < MaxCalls
    /\ \E n \in NameInputs :
          LET r == oz_change_to(oz_backend, n, installed) IN
          /\ oz_backend' = r.self
          /\ located' = located \cup r.imports
          /\ last' = Call("odezoo", "change_to", n, r)
    /\ prev' = last
    /\ ncalls' = ncalls + 1
    /\ UNCHANGED <<backend, installed, tx, threads, held>>

OzReadNumpy ==
    /\ ncalls < MaxCalls
    /\ LET r == oz_numpy(oz_backend) IN
          /\ oz_backend' = r.self
          /\ last' = Call("odezoo", "numpy", None, r)
    /\ prev' = last
    /\ ncalls' = ncalls + 1
    /\ UNCHANGED <<backend, installed, located, tx, threads, held>>

Next ==
    \/ Select
    \/ ChangeTo
    \/ ReadNumpy
    \/ ReadRandom
    \/ OzSelect
    \/ OzChangeTo
    \/ OzReadNumpy

Spec == Init /\ [][Next]_vars


(* ======================= vocabulary of the properties ================= *)

JAX == Str(<<"j", "a", "x">>)

NUMPY == Str(<<"n", "u", "m", "p", "y">>)

(* the supported set, as lower-case tokens *)
SupportedNames == {JAX, NUMPY}

(* inputs that name a supported engine / that do not *)
SupportedInputs == {n \in NameInputs : lower(n) \in SupportedNames}

UnknownInputs == NameInputs \ SupportedInputs

EngineNamed(n) == IF lower(n) = JAX THEN "jax" ELSE "numpy"

(* the diffeqzoo registry bound to engine e *)
Bound(e) ==
    IF e = "jax"
    THEN [backend_name |-> JAX, numpy_backend |-> Module("jax.numpy"),
          random_backend |-> Module("jax.random")]
    ELSE [backend_name |-> NUMPY, numpy_backend |-> Module("numpy"),
          random_backend |-> Module("numpy.random")]

Unselected == backend = backend_init

SelectedAs(e) == backend = Bound(e)

OzUnselected ==
    /\ oz_backend.backend_name = None
    /\ oz_backend.numpy_backend = None

OzBoundTo(self, e) ==
    IF e = "jax"
    THEN self.backend_name = JAX /\ self.numpy_backend = Module("jax.numpy")
    ELSE self.backend_name = NUMPY /\ self.numpy_backend = Module("numpy")

OzSelectedAs(e) == OzBoundTo(oz_backend, e)

(* the step is a call of op on the diffeqzoo / odezoo registry *)
DzStep(op) == last'.pkg = "diffeqzoo" /\ last'.op = op /\ ncalls' = ncalls + 1

OzStep(op) == last'.pkg = "odezoo" /\ last'.op = op /\ ncalls' = ncalls + 1

DzCall(c, op) == c.pkg = "diffeqzoo" /\ c.op = op

OzCall(c, op) == c.pkg = "odezoo" /\ c.op = op

(* ================================ C1 ================================== *)
(* C1: one-shot select.  On a registry that a select has already bound,   *)
(* a further select with any supported name raises RuntimeError and the   *)
(* registry (name, array_ops, random_ops) is left exactly as it was.      *)
(* Stated for both registries.                                            *)
C1_OneShotSelect ==
    [][ /\ (DzStep("select") /\ ~Unselected /\ last'.arg \in SupportedInputs)
            => (last'.exc = "RuntimeError" /\ backend' = backend)
        /\ (OzStep("select") /\ ~OzUnselected /\ last'.arg \in SupportedInputs)
            => (last'.exc = "RuntimeError" /\ oz_backend' = oz_backend)
      ]_vars

(* select(n1) succeeded, then select(n2) with another supported engine    *)
(* was refused and the binding of n1 is still in place                    *)
C1_Witness ==
    /\ ncalls = 2
    /\ DzCall(prev, "select") /\ prev.exc = NoExc
    /\ DzCall(last, "select") /\ last.exc = "RuntimeError"
    /\ last.arg \in SupportedInputs
    /\ EngineNamed(last.arg) # EngineNamed(prev.arg)
    /\ SelectedAs(EngineNamed(prev.arg))

(* ================================ C2 ================================== *)
(* C2: use before init.  While the registry is Unselected, reading the    *)
(* numpy or the random accessor raises the state error (RuntimeError in   *)
(* diffeqzoo; odezoo's numpy accessor raises a bare Exception with the    *)
(* same message) and returns no handle.                                   *)
C2_UseBeforeInit ==
    [][ /\ ((DzStep("numpy") \/ DzStep("random")) /\ Unselected)
            => (last'.exc = "RuntimeError" /\ last'.ret = None /\ Unselected')
        /\ (OzStep("numpy") /\ OzUnselected)
            => (last'.exc = "Exception" /\ last'.ret = None /\ OzUnselected')
      ]_vars

(* a failing call, then a read of random on the still Unselected registry *)
C2_Witness ==
    /\ ncalls = 2
    /\ prev.pkg = "diffeqzoo" /\ prev.exc # NoExc
    /\ DzCall(last, "random") /\ last.exc = "RuntimeError"
    /\ Unselected

(* ================================ C3 ================================== *)
(* C3: must select first.  change_to(n) with a supported name n on an     *)
(* Unselected registry raises RuntimeError and the registry stays         *)
(* Unselected.                                                            *)
C3_MustSelectFirst ==
    [][ /\ (DzStep("change_to") /\ Unselected /\ last'.arg \in SupportedInputs)
            => (last'.exc = "RuntimeError" /\ Unselected')
        /\ (OzStep("change_to") /\ OzUnselected /\ last'.arg \in SupportedInputs)
            => (last'.exc = "RuntimeError" /\ OzUnselected')
      ]_vars

(* change_to of an installed engine was refused on the fresh registry     *)
C3_Witness ==
    /\ DzCall(last, "change_to") /\ last.exc = "RuntimeError"
    /\ last.arg \in SupportedInputs
    /\ EngineNamed(last.arg) \in installed
    /\ Unselected

(* ================================ C4 ================================== *)
(* C4 as stated: select(x) with x outside the supported set, on an        *)
(* Unselected registry, raises ValueError and leaves the registry         *)
(* Unselected, and a subsequent select with any supported name succeeds.  *)
C4_Original ==
    [][ (DzStep("select") /\ Unselected /\ last'.arg \in UnknownInputs)
            => /\ last'.exc = "ValueError"
               /\ Unselected'
               /\ \A n \in SupportedInputs :
                     select(backend', n, installed').exc = NoExc
      ]_vars

(* C4 amended: select(x) with x outside the supported set, on an          *)
(* Unselected registry, raises ValueError and leaves the registry         *)
(* Unselected; a subsequent select with a supported name succeeds and     *)
(* binds that engine whenever the engine can be imported, and otherwise   *)
(* ends in the import error with the registry still Unselected.           *)
C4_UnknownRejected ==
    [][ (DzStep("select") /\ Unselected /\ last'.arg \in UnknownInputs)
            => /\ last'.exc = "ValueError"
               /\ Unselected'
               /\ \A n \in SupportedInputs :
                     LET r == select(backend', n, installed') IN
                     IF EngineNamed(n) \in installed'
                     THEN r.exc = NoExc /\ r.self = Bound(EngineNamed(n))
                     ELSE r.exc = "ModuleNotFoundError" /\ r.self = backend_init
      ]_vars

(* select of an unknown name failed with ValueError, the next select of   *)
(* a supported name succeeded                                             *)
C4_Witness ==
    /\ ncalls = 2
    /\ DzCall(prev, "select") /\ prev.arg \in UnknownInputs /\ prev.exc = "ValueError"
    /\ DzCall(last, "select") /\ last.arg \in SupportedInputs /\ last.exc = NoExc
    /\ SelectedAs(EngineNamed(last.arg))

(* ================================ C5 ================================== *)
(* C5: redundant revision.  After select(A) succeeded, change_to(A)       *)
(* returns without raising, calls warnings.warn, leaves the registry      *)
(* bound to the engine A, and afterwards the numpy and the random         *)
(* accessor both return that engine's handles without error.              *)
C5_RedundantRevision ==
    (/\ DzCall(prev, "select") /\ prev.exc = NoExc
     /\ DzCall(last, "change_to") /\ last.arg = prev.arg)
    => /\ last.exc = NoExc
       /\ last.warned
       /\ SelectedAs(EngineNamed(prev.arg))
       /\ numpy(backend).exc = NoExc
       /\ numpy(backend).ret = Bound(EngineNamed(prev.arg)).numpy_backend
       /\ random(backend).exc = NoExc
       /\ random(backend).ret = Bound(EngineNamed(prev.arg)).random_backend

(* select("jax") then change_to("jax") on a machine that has jax          *)
C5_Witness ==
    /\ ncalls = 2
    /\ DzCall(prev, "select") /\ prev.exc = NoExc /\ prev.arg = JAX
    /\ DzCall(last, "change_to") /\ last.arg = JAX
    /\ last.warned
    /\ SelectedAs("jax")

(* ================================ C6 ================================== *)
(* C6 as stated: in Selected(name), change_to(name') for every supported  *)
(* name' ends in Selected(name') with both handles bound to name', and    *)
(* warns iff name' equals name.                                           *)
C6_Original ==
    [][ /\ (DzStep("change_to") /\ ~Unselected /\ last'.arg \in SupportedInputs)
            => /\ last'.exc = NoExc
               /\ backend' = Bound(EngineNamed(last'.arg))
               /\ last'.warned <=> (lower(last'.arg) = backend.backend_name)
        /\ (OzStep("change_to") /\ ~OzUnselected /\ last'.arg \in SupportedInputs)
            => /\ last'.exc = NoExc
               /\ OzBoundTo(oz_backend', EngineNamed(last'.arg))
               /\ last'.warned <=> (lower(last'.arg) = oz_backend.backend_name)
      ]_vars

(* C6 amended: in Selected(name), change_to(name') for a supported name'  *)
(* is never refused by the ordering guard and warns iff name' equals      *)
(* name; it ends in Selected(name') with the handles bound to name' when  *)
(* the engine name' can be imported, and otherwise raises the import      *)
(* error and stays in Selected(name).                                     *)
C6_RevisionTransition ==
    [][ /\ (DzStep("change_to") /\ ~Unselected /\ last'.arg \in SupportedInputs)
            => /\ last'.warned <=> (lower(last'.arg) = backend.backend_name)
               /\ IF EngineNamed(last'.arg) \in installed
                  THEN last'.exc = NoExc /\ backend' = Bound(EngineNamed(last'.arg))
                  ELSE last'.exc = "ModuleNotFoundError" /\ backend' = backend
        /\ (OzStep("change_to") /\ ~OzUnselected /\ last'.arg \in SupportedInputs)
            => /\ last'.warned <=> (lower(last'.arg) = oz_backend.backend_name)
               /\ IF EngineNamed(last'.arg) \in installed
                  THEN last'.exc = NoExc /\ OzBoundTo(oz_backend', EngineNamed(last'.arg))
                  ELSE last'.exc = "ModuleNotFoundError" /\ oz_backend' = oz_backend
      ]_vars

(* a genuine change: select of one engine, change_to the other, no        *)
(* warning, both handles now belong to the other engine                   *)
C6_Witness ==
    /\ ncalls = 2
    /\ DzCall(prev, "select") /\ prev.exc = NoExc
    /\ DzCall(last, "change_to") /\ last.arg \in SupportedInputs
    /\ EngineNamed(last.arg) # EngineNamed(prev.arg)
    /\ last.exc = NoExc /\ ~last.warned
    /\ SelectedAs(EngineNamed(last.arg))

(* ================================ C7 ================================== *)
(* C7: pair invariant.  In every reachable state array_ops and random_ops *)
(* are both unset or both handles of one engine, and no call changes one  *)
(* of them without changing the other.                                    *)
PairOK ==
    \/ backend.numpy_backend = None /\ backend.random_backend = None
    \/ \E e \in Engines :
          /\ backend.numpy_backend = Bound(e).numpy_backend
          /\ backend.random_backend = Bound(e).random_backend

C7_PairInvariant ==
    /\ []PairOK
    /\ [][ (backend'.numpy_backend # backend.numpy_backend)
             <=> (backend'.random_backend # backend.random_backend) ]_vars

(* a change_to that failed on the import, then a change_to that did       *)
(* succeed: the pair is the pair of one engine                            *)
C7_Witness ==
    /\ ncalls = 3
    /\ DzCall(prev, "change_to") /\ prev.exc = "ModuleNotFoundError"
    /\ DzCall(last, "change_to") /\ last.exc = NoExc
    /\ backend.numpy_backend = Module("numpy")
    /\ backend.random_backend = Module("numpy.random")

(* ================================ C8 ================================== *)
(* C8: Selected persists.  The registry leaves Unselected only in a       *)
(* select call that returns normally, and no call (select, change_to,     *)
(* numpy, random; failing or not) takes a Selected registry back to       *)
(* Unselected - so the registry leaves Unselected at most once.           *)
C8_SelectedPersists ==
    [][ /\ (Unselected /\ ~Unselected')
            => (DzStep("select") /\ last'.exc = NoExc
                /\ \E e \in Engines : backend' = Bound(e))
        /\ (\E e \in Engines : SelectedAs(e))
            => (\E e \in Engines : backend' = Bound(e))
      ]_vars

(* two failing calls in a row on a Selected registry leave it Selected    *)
C8_Witness ==
    /\ ncalls = 3
    /\ DzCall(prev, "select") /\ prev.exc = "RuntimeError"
    /\ DzCall(last, "change_to") /\ last.exc = "ValueError"
    /\ \E e \in Engines : SelectedAs(e)

(* ================================ C9 ================================== *)
(* two strings that differ only in the case of their letters *)
CaseVariant(a, b) ==
    /\ Len(a.val) = Len(b.val)
    /\ \A i \in 1..Len(a.val) : LowerChar(a.val[i]) = LowerChar(b.val[i])

IsLowerCase(a) == \A i \in 1..Len(a.val) : a.val[i] \notin DOMAIN UpperToLower

(* C9: case-insensitive names.  select and change_to give the same        *)
(* result for names that differ only in letter case; the name recorded    *)
(* by a successful call is the lower-case spelling of its argument; and   *)
(* change_to with any case variant of the current name warns.             *)
C9_CaseInsensitive ==
    /\ \A n, m \in NameInputs :
          CaseVariant(n, m)
            => /\ select(backend, n, installed) = select(backend, m, installed)
               /\ select(backend_init, n, installed) = select(backend_init, m, installed)
               /\ change_to(backend, n, installed) = change_to(backend, m, installed)
    /\ ((DzCall(last, "select") \/ DzCall(last, "change_to")) /\ last.exc = NoExc)
          => /\ CaseVariant(backend.backend_name, last.arg)
             /\ IsLowerCase(backend.backend_name)
    /\ ~Unselected
          => \A n \in NameInputs :
                CaseVariant(n, backend.backend_name)
                  => /\ change_to(backend, n, installed).warned
                     /\ change_to(backend, n, installed).exc = NoExc

(* select("numpy") then change_to("NumPy"): warned, name still "numpy"    *)
C9_Witness ==
    /\ DzCall(prev, "select") /\ prev.arg = NUMPY /\ prev.exc = NoExc
    /\ DzCall(last, "change_to") /\ last.arg = Str(<<"N", "u", "m", "P", "y">>)
    /\ last.warned /\ last.exc = NoExc
    /\ backend.backend_name = NUMPY

(* ================================ C10 ================================= *)
(* C10: lazy binding.  A module is imported only inside a select or       *)
(* change_to call whose argument names the engine that ships it; and the  *)
(* result of every select/change_to call is the same whether or not an    *)
(* engine other than the one it names is installed.                       *)
LocatedOnlyWhenNamed ==
    (located' # located)
      => /\ last'.op \in {"select", "change_to"}
         /\ ncalls' = ncalls + 1
         /\ last'.arg \in SupportedInputs
         /\ \A m \in located' \ located : EngineOf(m) = EngineNamed(last'.arg)

OtherEngineIrrelevant ==
    \A n \in NameInputs : \A e \in Engines :
       (n \in UnknownInputs \/ e # EngineNamed(n))
         => /\ select(backend, n, installed \cup {e}) = select(backend, n, installed \ {e})
            /\ select(backend_init, n, installed \cup {e})
                 = select(backend_init, n, installed \ {e})
            /\ change_to(backend, n, installed \cup {e})
                 = change_to(backend, n, installed \ {e})
            /\ oz_select(oz_backend, n, installed \cup {e})
                 = oz_select(oz_backend, n, installed \ {e})
            /\ oz_select(oz_backend_init, n, installed \cup {e})
                 = oz_select(oz_backend_init, n, installed \ {e})
            /\ oz_change_to(oz_backend, n, installed \cup {e})
                 = oz_change_to(oz_backend, n, installed \ {e})

C10_LazyBinding ==
    /\ []OtherEngineIrrelevant
    /\ [][LocatedOnlyWhenNamed]_vars

(* on a machine without JAX, select and change_to of NumPy both worked    *)
(* and only NumPy's modules were imported                                 *)
C10_Witness ==
    /\ installed = {"numpy"}
    /\ DzCall(prev, "select") /\ prev.exc = NoExc
    /\ DzCall(last, "change_to") /\ last.exc = NoExc
    /\ located = {"numpy", "numpy.random"}
    /\ SelectedAs("numpy")

(***************************************************************************)
(* The model catalog and the order-reduction transform.                    *)
(*                                                                         *)
(*   odezoo.transform       : src/odezoo/transform.py                      *)
(*   odezoo.convert         : src/odezoo/convert.py                        *)
(*   odezoo.vector_fields   : src/odezoo/vector_fields.py                  *)
(*   diffeqzoo vector fields: src/diffeqzoo/_vector_fields.py              *)
(*                                                                         *)
(* An array is the tagged value [type |-> "ndarray", val |-> <<engine,     *)
(* shape, data>>] with the data in row-major order; numbers are integers   *)
(* (the catalog's arithmetic on them is exact in floating point).          *)
(***************************************************************************)

(* ------------------------------ bounds -------------------------------- *)
MaxLen == 4

MaxVal == 2

(* --------------------------- Python values ---------------------------- *)
Tuple(items) == [type |-> "tuple", val |-> items]

List(items) == [type |-> "list", val |-> items]

Float(x) == [type |-> "float", val |-> x]

PyInt(n) == [type |-> "int", val |-> n]

Fn(f) == [type |-> "function", val |-> <<f>>]

Array(eng, shape, data) == [type |-> "ndarray", val |-> <<eng, shape, data>>]

eng(a) == a.val[1]

shape(a) == a.val[2]

data(a) == a.val[3]

ndim(a) == Len(shape(a))

size(a) == Len(data(a))

IsArray(x) == x.type = "ndarray"

(* outcome of evaluating an expression: the exception raised (or NoExc),
   the value, and the calls made to wrapped functions on the way *)
Ok(v, calls) == [exc |-> NoExc, val |-> v, calls |-> calls]

Raise(e, calls) == [exc |-> e, val |-> None, calls |-> calls]

(* ------------------- the array engine behind a handle ----------------- *)
HandleEngine(np) == EngineOf(np.val[1])

(* np.asarray(x) of a Python number, of a list of numbers, or of an array *)
np_asarray(np, x) ==
    IF x.type = "float" THEN Array(HandleEngine(np), <<>>, <<x.val>>)
    ELSE IF IsArray(x) THEN Array(HandleEngine(np), shape(x), data(x))
    ELSE Array(HandleEngine(np), <<Len(x.val)>>, x.val)

np_split_uneven(np, ary, sections) ==
    IF ndim(ary) = 0 THEN Raise("IndexError", <<>>)
    ELSE LET n == (size(ary) + 1) \div sections
         IN  Ok(<<Array(HandleEngine(np), <<n>>, SubSeq(data(ary), 1, n)),
                  Array(HandleEngine(np), <<size(ary) - n>>,
                        SubSeq(data(ary), n + 1, size(ary)))>>, <<>>)

np_split_back_to_front(np, ary, sections) ==
    IF ndim(ary) = 0 THEN Raise("IndexError", <<>>)
    ELSE IF shape(ary)[1] % sections # 0 THEN Raise("ValueError", <<>>)
    ELSE LET n == size(ary) \div sections
             part(k) == Array(HandleEngine(np),
                              [shape(ary) EXCEPT ![1] = @ \div sections],
                              SubSeq(data(ary), (k - 1) * n + 1, k * n))
         IN  Ok(<<part(2), part(1)>>, <<>>)

(* np.split(ary, 2): two equal parts along axis 0 *)
np_split(np, ary, sections) ==
    IF ndim(ary) = 0 THEN Raise("IndexError", <<>>)
    ELSE IF shape(ary)[1] % sections # 0 THEN Raise("ValueError", <<>>)
    ELSE LET n == size(ary) \div sections
             part(k) == Array(HandleEngine(np),
                              [shape(ary) EXCEPT ![1] = @ \div sections],
                              SubSeq(data(ary), (k - 1) * n + 1, k * n))
         IN  Ok(<<part(1), part(2)>>, <<>>)

np_stack_needs_an_axis(np, arrays) ==
    IF \E i \in 1..Len(arrays) : ndim(arrays[i]) = 0
    THEN Raise("ValueError", <<>>)
    ELSE Ok(Array(HandleEngine(np), <<Len(arrays)>> \o shape(arrays[1]),
                  data(arrays[1]) \o data(arrays[2])), <<>>)

(* np.stack(arrays): a new leading axis; the shapes must agree *)
np_stack(np, arrays) ==
    IF \E i \in 1..Len(arrays) : shape(arrays[i]) # shape(arrays[1])
    THEN Raise("ValueError", <<>>)
    ELSE Ok(Array(HandleEngine(np), <<Len(arrays)>> \o shape(arrays[1]),
                  IF Len(arrays) = 2 THEN data(arrays[1]) \o data(arrays[2])
                  ELSE data(arrays[1])), <<>>)

np_concatenate_flat_as_rows(np, arrays) ==
    Ok(Array(HandleEngine(np), <<2, size(arrays[1])>>,
             data(arrays[1]) \o data(arrays[2])), <<>>)

(* np.concatenate(arrays, axis=None): the arrays are flattened first *)
np_concatenate_flat(np, arrays) ==
    Ok(Array(HandleEngine(np),
             <<size(arrays[1]) + size(arrays[2])>>,
             data(arrays[1]) \o data(arrays[2])), <<>>)

(* np.concatenate(arrays, axis=0) of two arrays *)
np_concatenate_axis0(np, arrays) ==
    IF \E i \in 1..Len(arrays) : ndim(arrays[i]) = 0
    THEN Raise("ValueError", <<>>)
    ELSE IF ndim(arrays[1]) # ndim(arrays[2])
            \/ Tail(shape(arrays[1])) # Tail(shape(arrays[2]))
    THEN Raise("ValueError", <<>>)
    ELSE Ok(Array(HandleEngine(np),
                  <<shape(arrays[1])[1] + shape(arrays[2])[1]>> \o Tail(shape(arrays[1])),
                  data(arrays[1]) \o data(arrays[2])), <<>>)

(* elementwise arithmetic of two arrays of at most one dimension, with
   broadcasting of 0-dimensional and length-1 operands *)
Broadcastable(a, b) ==
    \/ shape(a) = shape(b)
    \/ size(a) = 1 /\ ndim(a) <= ndim(b)
    \/ size(b) = 1 /\ ndim(b) <= ndim(a)
    \/ size(a) = 1 /\ size(b) = 1

BroadcastShape(a, b) ==
    IF shape(a) = shape(b) THEN shape(a)
    ELSE IF ndim(a) < ndim(b) THEN shape(b)
    ELSE IF ndim(b) < ndim(a) THEN shape(a)
    ELSE IF size(a) = 1 THEN shape(b) ELSE shape(a)

At(a, i) == data(a)[IF size(a) = 1 THEN 1 ELSE i]

(* ------------------------- catalog vector fields ---------------------- *)

(* van_der_pol(u, du, /, stiffness_constant) *)
van_der_pol(u, du, stiffness_constant) ==
    IF ~Broadcastable(u, du) THEN Raise("ValueError", <<>>)
    ELSE LET shp == BroadcastShape(u, du)
             n == IF shp = <<>> THEN 1 ELSE shp[1]
         IN  Ok(Array(eng(u), shp,
                      [i \in 1..n |->
                          stiffness_constant
                            * ((1 - At(u, i) * At(u, i)) * At(du, i) - At(u, i))]),
                <<>>)

lotka_volterra_both_grow(y, a, b, c, d, np) ==
    IF np.exc # NoExc THEN Raise(np.exc, <<>>)
    ELSE IF ndim(y) = 0 \/ size(y) < 2 THEN Raise("IndexError", <<>>)
    ELSE Ok(np_asarray(np.ret,
                       List(<<a * data(y)[1] + b * data(y)[1] * data(y)[2],
                              c * data(y)[2] + d * data(y)[1] * data(y)[2]>>)),
            <<>>)

lotka_volterra_reads_y_first(y, a, b, c, d, np) ==
    IF ndim(y) = 0 \/ size(y) < 2 THEN Raise("IndexError", <<>>)
    ELSE IF np.exc # NoExc THEN Raise(np.exc, <<>>)
    ELSE Ok(np_asarray(np.ret,
                       List(<<a * data(y)[1] - b * data(y)[1] * data(y)[2],
                              (0 - c) * data(y)[2] + d * data(y)[1] * data(y)[2]>>)),
            <<>>)

(* lotka_volterra(y, /, a, b, c, d); np is the outcome of reading
   backend.numpy, which is read before the entries of y are.  The parameters
   and the entries of the value are counted in hundredths, the entries of
   y in units. *)
lotka_volterra(y, a, b, c, d, np) ==
    IF np.exc # NoExc THEN Raise(np.exc, <<>>)
    ELSE IF ndim(y) = 0 \/ size(y) < 2 THEN Raise("IndexError", <<>>)
    ELSE Ok(np_asarray(np.ret,
                       List(<<a * data(y)[1] - b * data(y)[1] * data(y)[2],
                              (0 - c) * data(y)[2] + d * data(y)[1] * data(y)[2]>>)),
            <<>>)

(* logistic(u, p0, p1, /) *)
logistic(u, p0, p1) ==
    Ok(Array(eng(u), shape(u),
             [i \in 1..size(u) |-> p0 * data(u)[i] * (1 - p1 * data(u)[i])]), <<>>)

(* the number of entries of an array of a shape *)
RECURSIVE NumEntries(_)
NumEntries(shp) == IF shp = <<>> THEN 1 ELSE shp[1] * NumEntries(Tail(shp))

(* an array of which only the shape is followed; its entries are written 0 *)
Zeros(e, shp) == Array(e, shp, [i \in 1..NumEntries(shp) |-> 0])

(* backend.numpy.asarray([e1, ..., ek]) with entries computed from
   u[0] .. u[reads - 1]: the accessor is read before the entries are *)
asarray_of_entries(np, u, reads, k) ==
    IF np.exc # NoExc THEN Raise(np.exc, <<>>)
    ELSE IF ndim(u) = 0 \/ shape(u)[1] < reads THEN Raise("IndexError", <<>>)
    ELSE Ok(Zeros(HandleEngine(np.ret), <<k>> \o Tail(shape(u))), <<>>)

(* e1 = ...; ek = ...; return backend.numpy.asarray([e1, ..., ek]): the
   entries are computed before the accessor is read *)
entries_then_asarray(np, u, reads, k) ==
    IF ndim(u) = 0 \/ shape(u)[1] < reads THEN Raise("IndexError", <<>>)
    ELSE IF np.exc # NoExc THEN Raise(np.exc, <<>>)
    ELSE Ok(Zeros(HandleEngine(np.ret), <<k>> \o Tail(shape(u))), <<>>)

(* three_body(Y, dY, /, standardised_moon_mass) *)
three_body(Y, dY, np) ==
    IF np.exc # NoExc THEN Raise(np.exc, <<>>)
    ELSE IF ndim(Y) = 0 \/ shape(Y)[1] < 2 THEN Raise("IndexError", <<>>)
    ELSE IF ndim(dY) = 0 \/ shape(dY)[1] < 2 THEN Raise("IndexError", <<>>)
    ELSE Ok(Zeros(HandleEngine(np.ret), <<2>> \o Tail(shape(Y))), <<>>)

(* pleiades(u, /), for the 14 coordinates of the seven stars *)
pleiades(u, np) ==
    CASE ndim(u) = 0 -> Raise("IndexError", <<>>)
      [] shape(u) = <<14>> /\ np.exc # NoExc -> Raise(np.exc, <<>>)
      [] shape(u) = <<14>> /\ np.exc = NoExc ->
            Ok(Zeros(HandleEngine(np.ret), <<7 + 7>>), <<>>)

(* pleiades_autonomous_api(u, _, /) *)
pleiades_autonomous_api(u, du, np) == pleiades(u, np)

(* lorenz96(y, /, forcing) *)
lorenz96(y, np) ==
    IF np.exc # NoExc THEN Raise(np.exc, <<>>)
    ELSE Ok(Zeros(HandleEngine(np.ret), shape(y)), <<>>)

(* lorenz63(u, /, a, b, c) *)
lorenz63(u, np) == asarray_of_entries(np, u, 3, 3)

(* rigid_body(y, /, p1, p2, p3) *)
rigid_body(y, np) == asarray_of_entries(np, y, 3, 3)

(* fitzhugh_nagumo(u, /, a, b, c, d) *)
fitzhugh_nagumo(u, np) == asarray_of_entries(np, u, 2, 2)

(* sir(u, /, beta, gamma, population_count) *)
sir(u, np) == entries_then_asarray(np, u, 2, 3)

(* seir(u, /, alpha, beta, gamma, population_count) *)
seir(u, np) == entries_then_asarray(np, u, 3, 4)

(* sird(u, /, beta, gamma, eta, population_count) *)
sird(u, np) == entries_then_asarray(np, u, 2, 4)

(* hires(u, /) *)
hires(u, np) == entries_then_asarray(np, u, 8, 8)

(* rober(u, /, k1, k2, k3) *)
rober(u, np) == entries_then_asarray(np, u, 3, 3)

(* the positional parameters of each vector field: states (u, or u and du)
   and the parameters after them *)
Signature ==
    [lotka_volterra |-> [states |-> 1, params |-> 4],
     van_der_pol |-> [states |-> 2, params |-> 1],
     three_body |-> [states |-> 2, params |-> 1],
     pleiades |-> [states |-> 1, params |-> 0],
     pleiades_autonomous_api |-> [states |-> 2, params |-> 0],
     lorenz96 |-> [states |-> 1, params |-> 1],
     lorenz63 |-> [states |-> 1, params |-> 3],
     rigid_body |-> [states |-> 1, params |-> 3],
     logistic |-> [states |-> 1, params |-> 2],
     fitzhugh_nagumo |-> [states |-> 1, params |-> 4],
     sir |-> [states |-> 1, params |-> 3],
     seir |-> [states |-> 1, params |-> 4],
     sird |-> [states |-> 1, params |-> 4],
     hires |-> [states |-> 1, params |-> 0],
     rober |-> [states |-> 1, params |-> 3]]

(* the caller's field f(u, du) = -u *)
decay(u, du) ==
    Ok(Array(eng(u), shape(u), [i \in 1..size(u) |-> 0 - data(u)[i]]), <<>>)

(* a vector field of odezoo.vector_fields / diffeqzoo._vector_fields applied
   to posargs; np is the outcome of reading the package's backend.numpy.  A
   call with the wrong number of arguments raises TypeError. *)
vector_fields(fname, posargs, np) ==
    LET a == posargs IN
    IF Len(a) # Signature[fname].states + Signature[fname].params
    THEN Raise("TypeError", <<>>)
    ELSE CASE fname = "lotka_volterra" -> lotka_volterra(a[1], a[2], a[3], a[4], a[5], np)
           [] fname = "van_der_pol" -> van_der_pol(a[1], a[2], a[3])
           [] fname = "logistic" -> logistic(a[1], a[2], a[3])
           [] fname = "three_body" -> three_body(a[1], a[2], np)
           [] fname = "pleiades" -> pleiades(a[1], np)
           [] fname = "pleiades_autonomous_api" -> pleiades_autonomous_api(a[1], a[2], np)
           [] fname = "lorenz96" -> lorenz96(a[1], np)
           [] fname = "lorenz63" -> lorenz63(a[1], np)
           [] fname = "rigid_body" -> rigid_body(a[1], np)
           [] fname = "fitzhugh_nagumo" -> fitzhugh_nagumo(a[1], np)
           [] fname = "sir" -> sir(a[1], np)
           [] fname = "seir" -> seir(a[1], np)
           [] fname = "sird" -> sird(a[1], np)
           [] fname = "hires" -> hires(a[1], np)
           [] fname = "rober" -> rober(a[1], np)

(* fn applied to posargs, where fn is a catalog field or the caller's
   f(u, du) = -u; the call made is put on record *)
call_fn(fn, posargs, np) ==
    LET r == IF fn = Fn("decay")
             THEN IF Len(posargs) # 2 THEN Raise("TypeError", <<>>)
                  ELSE decay(posargs[1], posargs[2])
             ELSE vector_fields(fn.val[1], posargs, np)
    IN  [r EXCEPT !.calls = <<[fn |-> fn, args |-> posargs, ret |-> r.val]>>]

fn_transformed_accel_first(fn, u, args, self) ==
    LET np1 == oz_numpy(self) IN
    IF np1.exc # NoExc THEN Raise(np1.exc, <<>>) ELSE
    LET halves == np_split(np1.ret, u, 2) IN
    IF halves.exc # NoExc THEN Raise(halves.exc, <<>>) ELSE
    LET ddu == call_fn(fn, <<halves.val[1], halves.val[2]>> \o args, np1) IN
    IF ddu.exc # NoExc THEN Raise(ddu.exc, ddu.calls) ELSE
    [np_concatenate_flat(np1.ret, <<ddu.val, halves.val[2]>>)
        EXCEPT !.calls = ddu.calls]

(* faulty variant of fn_transformed: the result is always stacked *)
fn_transformed_always_stacks(fn, u, args, self) ==
    LET np1 == oz_numpy(self) IN
    IF np1.exc # NoExc THEN Raise(np1.exc, <<>>) ELSE
    LET halves == np_split(np1.ret, u, 2) IN
    IF halves.exc # NoExc THEN Raise(halves.exc, <<>>) ELSE
    LET u_ == halves.val[1]
        du == halves.val[2]
        ddu == call_fn(fn, <<u_, du>> \o args, oz_numpy(self))
    IN
    IF ddu.exc # NoExc THEN Raise(ddu.exc, ddu.calls) ELSE
    [np_stack(oz_numpy(self).ret, <<du, ddu.val>>) EXCEPT !.calls = ddu.calls]

(* fn_transformed(u, args...), the function second_to_first_order_vf_auto(fn)
   returns, evaluated while the registry is in state self *)
fn_transformed(fn, u, args, self) ==
    LET np1 == oz_numpy(self) IN
    IF np1.exc # NoExc THEN Raise(np1.exc, <<>>) ELSE
    LET halves == np_split(np1.ret, u, 2) IN
    IF halves.exc # NoExc THEN Raise(halves.exc, <<>>) ELSE
    LET u_ == halves.val[1]
        du == halves.val[2]
        ddu == call_fn(fn, <<u_, du>> \o args, oz_numpy(self))
    IN
    IF ddu.exc # NoExc THEN Raise(ddu.exc, ddu.calls) ELSE
    LET out == IF ndim(du) = 0
               THEN np_stack(oz_numpy(self).ret, <<du, ddu.val>>)
               ELSE np_concatenate_flat(oz_numpy(self).ret, <<du, ddu.val>>)
    IN  [out EXCEPT !.calls = ddu.calls]

(* ============================ odezoo.ivps ============================= *)

(* keyword arguments are a function from names to values; a parameter that
   is not passed takes its default *)
Kw(kwargs, key, default) == IF key \in DOMAIN kwargs THEN kwargs[key] ELSE default

(* times are counted in tenths: (0.0, 6.3) is TimeSpan(0, 63) *)
TimeSpan(t0, t1) == Tuple(<<t0, t1>>)

(* _InitialValueProblem(vector_field, initial_values, time_span,
   vector_field_args) *)
InitialValueProblem(vector_field, initial_values, time_span, vector_field_args) ==
    [type |-> "_InitialValueProblem",
     vector_field |-> vector_field,
     initial_values |-> initial_values,
     time_span |-> time_span,
     vector_field_args |-> vector_field_args]

(* ivps.van_der_pol(stiffness_constant=, initial_values=, time_span=) *)
ivps_van_der_pol(kwargs, self) ==
    LET stiffness_constant == Kw(kwargs, "stiffness_constant", 1)
        time_span == Kw(kwargs, "time_span", TimeSpan(0, 63))
        given == Kw(kwargs, "initial_values", None)
        np1 == oz_numpy(self)
    IN
    IF given = None /\ np1.exc # NoExc THEN Raise(np1.exc, <<>>) ELSE
    LET initial_values ==
            IF given = None
            THEN Tuple(<<np_asarray(np1.ret, Float(2)), np_asarray(np1.ret, Float(0))>>)
            ELSE given
    IN  Ok(InitialValueProblem(Fn("van_der_pol"), initial_values, time_span,
                               Tuple(<<stiffness_constant>>)), <<>>)

(* diffeqzoo.ivps.van_der_pol(stiffness_constant=, initial_values=,
   time_span=): the initial values default to the pair (2.0, 0.0) and are
   always converted *)
dz_ivps_van_der_pol(kwargs, self) ==
    LET stiffness_constant == Kw(kwargs, "stiffness_constant", 1)
        time_span == Kw(kwargs, "time_span", TimeSpan(0, 63))
        initial_values == Kw(kwargs, "initial_values", Tuple(<<Float(2), Float(0)>>))
        np1 == numpy(self)
    IN
    IF np1.exc # NoExc THEN Raise(np1.exc, <<>>) ELSE
    Ok(InitialValueProblem(Fn("van_der_pol"),
                           Tuple(<<np_asarray(np1.ret, initial_values.val[1]),
                                   np_asarray(np1.ret, initial_values.val[2])>>),
                           time_span, Tuple(<<stiffness_constant>>)), <<>>)

(* a factory of the module ivps, as a function object *)
FactoryFn(fname) == [type |-> "function", val |-> <<"ivps", fname>>]

(* the factories of odezoo.ivps that build their record themselves: the
   vector field, the order of the problem, the shape of each default initial
   value and the number of vector_field_args *)
Factories ==
    [lotka_volterra |-> [vector_field |-> "lotka_volterra", order |-> 1, u0 |-> <<2>>, nargs |-> 4],
     fitzhugh_nagumo |-> [vector_field |-> "fitzhugh_nagumo", order |-> 1, u0 |-> <<2>>, nargs |-> 4],
     logistic |-> [vector_field |-> "logistic", order |-> 1, u0 |-> <<>>, nargs |-> 2],
     sir |-> [vector_field |-> "sir", order |-> 1, u0 |-> <<3>>, nargs |-> 3],
     seir |-> [vector_field |-> "seir", order |-> 1, u0 |-> <<4>>, nargs |-> 4],
     sird |-> [vector_field |-> "sird", order |-> 1, u0 |-> <<4>>, nargs |-> 4],
     lorenz96 |-> [vector_field |-> "lorenz96", order |-> 1, u0 |-> <<10>>, nargs |-> 1],
     lorenz63 |-> [vector_field |-> "lorenz63", order |-> 1, u0 |-> <<3>>, nargs |-> 3],
     rigid_body |-> [vector_field |-> "rigid_body", order |-> 1, u0 |-> <<3>>, nargs |-> 3],
     pleiades |-> [vector_field |-> "pleiades", order |-> 2, u0 |-> <<7 + 7>>, nargs |-> 0],
     pleiades_autonomous_api |->
        [vector_field |-> "pleiades_autonomous_api", order |-> 2, u0 |-> <<7 + 7>>, nargs |-> 0],
     three_body |-> [vector_field |-> "three_body", order |-> 2, u0 |-> <<2>>, nargs |-> 1],
     hires |-> [vector_field |-> "hires", order |-> 1, u0 |-> <<8>>, nargs |-> 0],
     rober |-> [vector_field |-> "rober", order |-> 1, u0 |-> <<3>>, nargs |-> 3]]

(* the time span a factory takes by default; its ends are not followed *)
DefaultTimeSpan == Tuple(<<"t0", "t1">>)

(* ivps.<fname>() with initial_values omitted or None: the default initial
   values are made with backend.numpy; of the initial values only the
   shapes, of the parameters only the number is followed *)
ivps_default(fname, self) ==
    LET np1 == oz_numpy(self)
        entry == Factories[fname]
    IN
    IF np1.exc # NoExc THEN Raise(np1.exc, <<>>) ELSE
    LET u0 == Zeros(HandleEngine(np1.ret), entry.u0)
        initial_values == IF entry.order = 1 THEN u0 ELSE Tuple(<<u0, u0>>)
    IN  Ok(InitialValueProblem(Fn(entry.vector_field), initial_values,
                               DefaultTimeSpan,
                               Tuple([i \in 1..entry.nargs |-> 1])), <<>>)

(* ivp_fn called with kwargs; the call made is put on record *)
call_ivp_fn(ivp_fn, kwargs, self) ==
    LET r == IF ivp_fn = FactoryFn("van_der_pol")
             THEN ivps_van_der_pol(kwargs, self)
             ELSE ivps_default(ivp_fn.val[2], self)
    IN  [r EXCEPT !.calls = <<[fn |-> ivp_fn, args |-> kwargs, ret |-> r.val]>>]

(* ========================= odezoo.transform =========================== *)

(* the function object second_to_first_order_vf_auto(fn) returns *)
second_to_first_order_vf_auto(fn) ==
    [type |-> "function", val |-> <<"fn_transformed", fn>>]

replace_in_place(ivp, initial_values, vector_field) ==
    LET new == [ivp EXCEPT !.initial_values = initial_values,
                           !.vector_field = vector_field]
    IN  [ret |-> new, self |-> new]

(* namedtuple._replace: returns a new record with the fields given replaced;
   self is the receiver as the call leaves it *)
replace(ivp, initial_values, vector_field) ==
    [ret |-> [ivp EXCEPT !.initial_values = initial_values,
                         !.vector_field = vector_field],
     self |-> ivp]

(* ivp_fn_transformed(initial_values=None, kwargs...), the factory
   second_to_first_order_auto(ivp_fn) returns.  The outcome carries, next to
   the record returned, the call of the wrapped factory; its ret is the
   wrapped factory's record as it is when ivp_fn_transformed returns. *)
ivp_fn_transformed(ivp_fn, kwargs, self) ==
    LET given == Kw(kwargs, "initial_values", None)
        np1 == oz_numpy(self)
    IN
    IF given # None /\ np1.exc # NoExc THEN Raise(np1.exc, <<>>) ELSE
    LET halves == IF given # None THEN np_split(np1.ret, given, 2)
                  ELSE Ok(None, <<>>)
    IN
    IF halves.exc # NoExc THEN Raise(halves.exc, <<>>) ELSE
    LET initial_values == IF given # None THEN List(halves.val) ELSE None
        ivp_untransformed ==
            call_ivp_fn(ivp_fn,
                        [k \in DOMAIN kwargs \cup {"initial_values"} |->
                            IF k = "initial_values" THEN initial_values
                            ELSE kwargs[k]],
                        self)
    IN
    IF ivp_untransformed.exc # NoExc
    THEN Raise(ivp_untransformed.exc, ivp_untransformed.calls) ELSE
    LET f_untransformed == ivp_untransformed.val.vector_field
        u0s == ivp_untransformed.val.initial_values.val
        np2 == oz_numpy(self)
    IN
    IF np2.exc # NoExc THEN Raise(np2.exc, ivp_untransformed.calls) ELSE
    LET combined == IF ndim(u0s[1]) = 0
                    THEN np_stack(np2.ret, u0s)
                    ELSE np_concatenate_flat(np2.ret, u0s)
    IN
    IF combined.exc # NoExc THEN Raise(combined.exc, ivp_untransformed.calls) ELSE
    LET replaced == replace(ivp_untransformed.val, combined.val,
                            second_to_first_order_vf_auto(f_untransformed))
    IN  Ok(replaced.ret,
           <<[ivp_untransformed.calls[1] EXCEPT !.ret = replaced.self]>>)

(* the factories second_to_first_order_auto makes, and what they wrap *)
FirstOrderOf ==
    [van_der_pol_first_order |-> "van_der_pol",
     pleiades_first_order |-> "pleiades_autonomous_api",
     three_body_first_order |-> "three_body"]

NoKwargs == [k \in {} |-> None]

(* ivps.<fname>(): a factory of the catalog called with default arguments *)
ivps(fname, self) ==
    IF fname \in DOMAIN FirstOrderOf
    THEN ivp_fn_transformed(FactoryFn(FirstOrderOf[fname]), NoKwargs, self)
    ELSE call_ivp_fn(FactoryFn(fname), NoKwargs, self)

(* ========================== odezoo.convert ============================ *)

(* ivps.InitialValueProblem(vector_field=..., ..., dimension=...), the record
   convert builds: the keywords as they are passed *)
ivps_InitialValueProblem(vector_field, jacobian, vector_field_args, initial_values, time_span, is_autonomous, has_periodic_solution, order, dimension) ==
    [type |-> "InitialValueProblem",
     vector_field |-> vector_field,
     jacobian |-> jacobian,
     vector_field_args |-> vector_field_args,
     initial_values |-> initial_values,
     time_span |-> time_span,
     is_autonomous |-> is_autonomous,
     has_periodic_solution |-> has_periodic_solution,
     order |-> order,
     dimension |-> dimension]

(* a function defined inside second_to_first_order_autonomous; it keeps the
   ivp it was made for *)
Closure(fname, ivp) == [type |-> "function", val |-> <<fname, ivp>>]

(* x or None, for an integer x *)
OrNone(x) == IF x.val = 0 THEN None ELSE x

second_to_first_order_autonomous_same_dimension(ivp, self) ==
    LET np1 == oz_numpy(self) IN
    IF np1.exc # NoExc THEN Raise(np1.exc, <<>>) ELSE
    LET joined == np_concatenate_axis0(np1.ret, ivp.initial_values.val) IN
    IF joined.exc # NoExc THEN Raise(joined.exc, <<>>) ELSE
    Ok(ivps_InitialValueProblem(Closure("f", ivp), Closure("df", ivp),
                                ivp.vector_field_args, Tuple(<<joined.val>>),
                                ivp.time_span, TRUE, ivp.has_periodic_solution,
                                IF ivp.order # None THEN PyInt(1) ELSE None,
                                OrNone(ivp.dimension)), <<>>)

(* convert.second_to_first_order_autonomous(ivp=) *)
second_to_first_order_autonomous(ivp, self) ==
    LET np1 == oz_numpy(self) IN
    IF np1.exc # NoExc THEN Raise(np1.exc, <<>>) ELSE
    LET joined == np_concatenate_axis0(np1.ret, ivp.initial_values.val) IN
    IF joined.exc # NoExc THEN Raise(joined.exc, <<>>) ELSE
    LET inits == Tuple(<<joined.val>>)
        order == IF ivp.order # None THEN PyInt(1) ELSE None
        dimension == OrNone(PyInt(ivp.dimension.val * 2))
    IN  Ok(ivps_InitialValueProblem(Closure("f", ivp), Closure("df", ivp),
                                    ivp.vector_field_args, inits, ivp.time_span,
                                    TRUE, ivp.has_periodic_solution, order,
                                    dimension), <<>>)

(* ============================== the tests ============================= *)

(* the vector field of a record evaluated at the record's initial values
   with its vector_field_args: f(u0, f_args...) for a first-order problem,
   f(u0, du0, f_args...) or f(u0, f_args...) for a second-order problem, as
   the signature of f has it *)
evaluate(ode_model, self) ==
    LET f == ode_model.vector_field
        u0 == ode_model.initial_values
        f_args == ode_model.vector_field_args.val
    IN  IF f.val[1] = "fn_transformed"
        THEN fn_transformed(f.val[2], u0, f_args, self)
        ELSE call_fn(f,
                     (IF IsArray(u0) THEN <<u0>>
                      ELSE SubSeq(u0.val, 1, Signature[f.val[1]].states)) \o f_args,
                     oz_numpy(self))

(* ============ the catalog as a state machine (SpecZoo) ================ *)

Vals == 0..MaxVal

(* one-dimensional arrays of an engine, of length 0..MaxLen *)
Vectors(e) ==
    UNION {{Array(e, <<n>>, d) : d \in [1..n -> Vals]} : n \in 0..MaxLen}

(* 0-dimensional arrays of an engine *)
Scalars(e) == {Array(e, <<>>, <<x>>) : x \in Vals}

SecondOrderFields == {Fn("van_der_pol"), Fn("decay")}

(* the extra arguments a caller binds to a field *)
ArgsFor(fn) == IF fn = Fn("van_der_pol") THEN {<<1>>, <<2>>} ELSE {<<>>}

(* a catalog call and its outcome; reg is the registry the call ran against *)
ZooCall(pkg, op, fn, input, args, reg, r) ==
    [pkg |-> pkg, op |-> op, fn |-> fn, input |-> input, args |-> args, reg |-> reg,
     exc |-> r.exc, val |-> r.val, calls |-> r.calls]

(* the call made last is a call of op *)
ZooIs(op) == tx # NoCall /\ tx.op = op

(* the registries are configured as in Spec, without the call log *)
ZooOzSelect ==
    /\ \E n \in NameInputs :
          LET r == oz_select(oz_backend, n, installed) IN
          /\ oz_backend' = r.self
          /\ located' = located \cup r.imports
    /\ UNCHANGED <<backend, installed, last, prev, ncalls, tx, threads, held>>

ZooOzChangeTo ==
    /\ \E n \in NameInputs :
          LET r == oz_change_to(oz_backend, n, installed) IN
          /\ oz_backend' = r.self
          /\ located' = located \cup r.imports
    /\ UNCHANGED <<backend, installed, last, prev, ncalls, tx, threads, held>>

(* g = second_to_first_order_vf_auto(fn); g(y, args...), called by a caller
   that makes one catalog call at a time *)
EvalTransformedField ==
    /\ tx = NoCall
    /\ \E fn \in SecondOrderFields : \E e \in installed :
       \E y \in Vectors(e) \cup Scalars(e) : \E args \in ArgsFor(fn) :
          tx' = ZooCall("odezoo", "fn_transformed", fn, y, args, oz_backend,
                        fn_transformed(fn, y, args, oz_backend))
    /\ UNCHANGED <<backend, oz_backend, installed, located, last, prev, ncalls, threads, held>>

SecondOrderFactories == {FactoryFn("van_der_pol")}

(* the keyword arguments a caller passes to a factory, next to
   initial_values *)
KwargsInputs ==
    LET passed == [stiffness_constant |-> 2, time_span |-> TimeSpan(1, 2)]
    IN  {[k \in ks |-> passed[k]] : ks \in SUBSET {"stiffness_constant", "time_span"}}

WithInitialValues(kwargs, y) ==
    [k \in DOMAIN kwargs \cup {"initial_values"} |->
        IF k = "initial_values" THEN y ELSE kwargs[k]]

(* second_to_first_order_auto(ivp_fn) called with kwargs, with initial_values passed
   or omitted *)
CallTransformedFactory ==
    /\ tx = NoCall
    /\ \E ivp_fn \in SecondOrderFactories : \E kw \in KwargsInputs :
       \E e \in installed : \E y \in Vectors(e) \cup Scalars(e) \cup {None} :
          LET kwargs == IF y = None THEN kw ELSE WithInitialValues(kw, y) IN
          tx' = ZooCall("odezoo", "ivp_fn_transformed", ivp_fn, y, kwargs, oz_backend,
                        ivp_fn_transformed(ivp_fn, kwargs, oz_backend))
    /\ UNCHANGED <<backend, oz_backend, installed, located, last, prev, ncalls, threads, held>>

(* the pairs (u0, du0) a caller passes to a second-order factory *)
PairInputs(e) == {Tuple(<<u0, du0>>) : u0 \in Scalars(e), du0 \in Scalars(e)}

(* the second-order problems a caller converts: the two initial values are
   vectors of d entries each or a pair of 0-dimensional arrays, the problem
   has dimension d (1 for the 0-dimensional pair) *)
ProblemInputs(e) ==
    {ivps_InitialValueProblem(Fn("van_der_pol"), Fn("jacobian"), Tuple(<<1>>), pair.u0s,
                              TimeSpan(0, 63), TRUE, periodic, order, PyInt(pair.d)) :
        pair \in UNION {{[u0s |-> Tuple(<<Array(e, <<d>>, u0), Array(e, <<d>>, du0)>>),
                           d |-> d] : u0 \in [1..d -> Vals], du0 \in [1..d -> Vals]} :
                              d \in 1..(MaxLen \div 2)}
               \cup {[u0s |-> p, d |-> 1] : p \in PairInputs(e)},
        periodic \in {TRUE, FALSE},
        order \in {PyInt(2), None}}

(* convert.second_to_first_order_autonomous(ivp=ivp) *)
Convert ==
    /\ tx = NoCall
    /\ \E e \in installed : \E ivp \in ProblemInputs(e) :
          tx' = ZooCall("odezoo", "convert", Fn("second_to_first_order_autonomous"),
                        ivp, <<>>, oz_backend,
                        second_to_first_order_autonomous(ivp, oz_backend))
    /\ UNCHANGED <<backend, oz_backend, installed, located, last, prev, ncalls, threads, held>>

(* ivps.<fname>(), every argument left at its default *)
CatalogFactories ==
    DOMAIN Factories \cup DOMAIN FirstOrderOf \cup {"van_der_pol"}

CallDefaultFactory ==
    /\ tx = NoCall
    /\ \E fname \in CatalogFactories :
          tx' = ZooCall("odezoo", "ivps", FactoryFn(fname), None, NoKwargs,
                        oz_backend, ivps(fname, oz_backend))
    /\ UNCHANGED <<backend, oz_backend, installed, located, last, prev, ncalls, threads, held>>

(* f, u0, (t0, _), f_args = ode_model; the field evaluated for the record a
   factory has just returned; args keeps the factory call that made it *)
EvaluateRecord ==
    /\ ZooIs("ivp_fn_transformed") \/ ZooIs("ivps")
    /\ tx.exc = NoExc
    /\ LET ode_model == tx.val IN
       tx' = ZooCall("odezoo", "evaluate", ode_model.vector_field, ode_model,
                     [factory |-> tx.fn, kwargs |-> tx.args],
                     oz_backend, evaluate(ode_model, oz_backend))
    /\ UNCHANGED <<backend, oz_backend, installed, located, last, prev, ncalls, threads, held>>

ZooSelect ==
    /\ \E n \in NameInputs :
          LET r == select(backend, n, installed) IN
          /\ backend' = r.self
          /\ located' = located \cup r.imports
    /\ UNCHANGED <<oz_backend, installed, last, prev, ncalls, tx, threads, held>>

ZooChangeTo ==
    /\ \E n \in NameInputs :
          LET r == change_to(backend, n, installed) IN
          /\ backend' = r.self
          /\ located' = located \cup r.imports
    /\ UNCHANGED <<oz_backend, installed, last, prev, ncalls, tx, threads, held>>

Packages == {"odezoo", "diffeqzoo"}

RegistryOf(pkg) == IF pkg = "odezoo" THEN oz_backend ELSE backend

AccessorOf(pkg) == IF pkg = "odezoo" THEN oz_numpy(oz_backend) ELSE numpy(backend)

CatalogFields == {"lotka_volterra", "van_der_pol", "logistic"}

(* the parameters of lotka_volterra: the defaults (0.5, 0.05, 0.5, 0.05)
   and (1.0, 0.0, 1.0, 0.0), in hundredths *)
LotkaVolterraParameters == {<<50, 5, 50, 5>>, <<100, 0, 100, 0>>}

(* the vectors no longer than the state of lotka_volterra *)
ShortVectors(e) == {y \in Vectors(e) : size(y) <= 2}

(* the arguments a caller passes to a catalog vector field *)
FieldInputs(fname, e) ==
    IF fname = "lotka_volterra"
    THEN {<<y>> \o p : y \in ShortVectors(e) \cup {Array(e, <<2>>, <<20, 20>>)},
                       p \in LotkaVolterraParameters}
    ELSE IF fname = "van_der_pol"
    THEN {<<u, du, 1>> : u \in Scalars(e), du \in Scalars(e)}
    ELSE {<<u, 1, p1>> : u \in Scalars(e) \cup ShortVectors(e), p1 \in {1, 2}}

(* vector_fields.<fname> of either package, applied to posargs *)
EvalCatalogField ==
    /\ tx = NoCall
    /\ \E pkg \in Packages : \E fname \in CatalogFields : \E e \in installed :
       \E posargs \in FieldInputs(fname, e) :
          tx' = ZooCall(pkg, "vector_field", Fn(fname), posargs, <<>>, RegistryOf(pkg),
                        vector_fields(fname, posargs, AccessorOf(pkg)))
    /\ UNCHANGED <<backend, oz_backend, installed, located, last, prev, ncalls, threads, held>>

(* ivps.van_der_pol of either package called with kwargs, with initial_values passed
   or omitted *)
CallCatalogFactory ==
    /\ tx = NoCall
    /\ \E pkg \in Packages : \E kw \in KwargsInputs : \E e \in installed :
       \E y \in PairInputs(e) \cup {None} :
          LET kwargs == IF y = None THEN kw ELSE WithInitialValues(kw, y) IN
          tx' = ZooCall(pkg, "factory", FactoryFn("van_der_pol"), y, kwargs,
                        RegistryOf(pkg),
                        IF pkg = "odezoo" THEN ivps_van_der_pol(kwargs, oz_backend)
                        ELSE dz_ivps_van_der_pol(kwargs, backend))
    /\ UNCHANGED <<backend, oz_backend, installed, located, last, prev, ncalls, threads, held>>

(* the caller takes the outcome of its call; its next call may start *)
ZooReturn ==
    /\ tx # NoCall
    /\ tx' = NoCall
    /\ UNCHANGED <<backend, oz_backend, installed, located, last, prev, ncalls, threads, held>>

NextZoo ==
    \/ ZooOzSelect
    \/ ZooOzChangeTo
    \/ EvalTransformedField
    \/ CallTransformedFactory
    \/ CallDefaultFactory
    \/ EvaluateRecord
    \/ Convert
    \/ ZooReturn

(* the transform of odezoo and its registry *)
SpecZoo == Init /\ [][NextZoo]_vars

NextCatalog ==
    \/ ZooSelect
    \/ ZooChangeTo
    \/ ZooOzSelect
    \/ ZooOzChangeTo
    \/ EvalCatalogField
    \/ CallCatalogFactory
    \/ ZooReturn

(* the vector fields and factories of both packages and their registries *)
SpecCatalog == Init /\ [][NextCatalog]_vars

(* ============================ claims C11..C20 ========================= *)

IsVector(a) == IsArray(a) /\ ndim(a) = 1

EvenVector(a) == IsVector(a) /\ size(a) % 2 = 0

Half(a) == size(a) \div 2

FirstHalf(a) == SubSeq(data(a), 1, Half(a))

SecondHalf(a) == SubSeq(data(a), Half(a) + 1, size(a))

RegSelected(reg) == reg.numpy_backend # None

(* C11: order reduction of the vector field.  With the registry selected,
   for every second-order field f, all equal-length vectors u, du and all
   extra args, g(concat(u, du), args...) returns the vector whose first half
   is du and whose second half is f(u, du, args...). *)
C11_OrderReduction ==
    (ZooIs("fn_transformed") /\ EvenVector(tx.input) /\ RegSelected(tx.reg)) =>
        LET e == eng(tx.input)
            n == Half(tx.input)
            u == Array(e, <<n>>, FirstHalf(tx.input))
            du == Array(e, <<n>>, SecondHalf(tx.input))
            f == call_fn(tx.fn, <<u, du>> \o tx.args, oz_numpy(tx.reg))
        IN  /\ tx.exc = NoExc
            /\ shape(tx.val) = <<2 * n>>
            /\ SubSeq(data(tx.val), 1, n) = data(du)
            /\ SubSeq(data(tx.val), n + 1, 2 * n) = data(f.val)

C11_Witness ==
    /\ ZooIs("fn_transformed") /\ RegSelected(tx.reg)
    /\ tx.fn = Fn("van_der_pol")
    /\ data(tx.input) = <<2, 1, 0, 1>>
    /\ tx.args = <<2>>
    /\ data(tx.val) = <<0, 1, 0 - 4, 0 - 2>>

(* C12: scalar case of the transform.  With the registry selected, the
   transformed Van der Pol factory called without initial values returns
   a record whose initial_values is the length-2 array [2, 0] (the stacked
   0-dimensional defaults), and evaluating the record's vector field at
   that vector with the record's vector_field_args returns a length-2
   array. *)
C12_ScalarCase ==
    /\ (ZooIs("ivp_fn_transformed") /\ tx.input = None /\ RegSelected(tx.reg)) =>
            /\ tx.exc = NoExc
            /\ ndim(tx.calls[1].ret.initial_values.val[1]) = 0
            /\ shape(tx.val.initial_values) = <<2>>
            /\ data(tx.val.initial_values) = <<2, 0>>
    /\ (ZooIs("evaluate")
            /\ tx.fn = second_to_first_order_vf_auto(Fn("van_der_pol"))
            /\ data(tx.input.initial_values) = <<2, 0>>) =>
            /\ tx.exc = NoExc
            /\ IsArray(tx.val)
            /\ shape(tx.val) = <<2>>

C12_Witness ==
    /\ ZooIs("evaluate")
    /\ tx.input.vector_field = second_to_first_order_vf_auto(Fn("van_der_pol"))
    /\ tx.input.vector_field_args = Tuple(<<1>>)
    /\ tx.input.time_span = TimeSpan(0, 63)
    /\ data(tx.input.initial_values) = <<2, 0>>
    /\ tx.exc = NoExc
    /\ data(tx.val) = <<0, 0 - 2>>

(* C13: combined initial values round-trip through the transformed factory.
   With the registry selected, for every even-length vector y0 the call
   transformed_factory(initial_values=y0) calls the wrapped factory once,
   with initial_values = (first half of y0, second half of y0), and returns
   a record whose initial_values equals y0 element for element. *)
C13_RoundTrip ==
    (ZooIs("ivp_fn_transformed") /\ tx.input # None /\ EvenVector(tx.input)
        /\ RegSelected(tx.reg)) =>
        /\ tx.exc = NoExc
        /\ Len(tx.calls) = 1
        /\ tx.calls[1].fn = tx.fn
        /\ LET passed == tx.calls[1].args["initial_values"].val IN
           /\ Len(passed) = 2
           /\ data(passed[1]) = FirstHalf(tx.input)
           /\ data(passed[2]) = SecondHalf(tx.input)
        /\ shape(tx.val.initial_values) = shape(tx.input)
        /\ data(tx.val.initial_values) = data(tx.input)

C13_Witness ==
    /\ ZooIs("ivp_fn_transformed") /\ tx.input # None /\ tx.exc = NoExc
    /\ data(tx.input) = <<1, 2, 0, 1>>
    /\ data(tx.calls[1].args["initial_values"].val[1]) = <<1, 2>>
    /\ data(tx.calls[1].args["initial_values"].val[2]) = <<0, 1>>
    /\ data(tx.val.initial_values) = <<1, 2, 0, 1>>

(* C14: frame of the factory transform.  The record a transformed factory
   returns is a new record that differs from the wrapped factory's record
   only in vector_field (the transformed field of the wrapped one) and
   initial_values; time_span and vector_field_args are identical, and the
   wrapped factory's record is, on return, still what the wrapped factory
   returned. *)
C14_FactoryFrame ==
    (ZooIs("ivp_fn_transformed") /\ tx.exc = NoExc) =>
        LET wrapped == tx.calls[1].ret
            made == call_ivp_fn(tx.calls[1].fn, tx.calls[1].args, tx.reg).val
        IN  /\ wrapped = made
            /\ tx.val # wrapped
            /\ DOMAIN tx.val = DOMAIN wrapped
            /\ \A field \in DOMAIN wrapped \ {"vector_field", "initial_values"} :
                  tx.val[field] = wrapped[field]
            /\ tx.val.time_span = wrapped.time_span
            /\ tx.val.vector_field_args = wrapped.vector_field_args
            /\ tx.val.vector_field = second_to_first_order_vf_auto(wrapped.vector_field)
            /\ IsArray(tx.val.initial_values)

C14_Witness ==
    /\ ZooIs("ivp_fn_transformed") /\ tx.exc = NoExc
    /\ tx.args = [stiffness_constant |-> 2, time_span |-> TimeSpan(1, 2)]
    /\ tx.val.time_span = TimeSpan(1, 2)
    /\ tx.val.vector_field_args = Tuple(<<2>>)
    /\ tx.calls[1].ret.vector_field = Fn("van_der_pol")
    /\ tx.calls[1].ret.initial_values.type = "tuple"

(* the error a package's accessor raises while its registry is unselected *)
StateError(pkg) == IF pkg = "diffeqzoo" THEN "RuntimeError" ELSE "Exception"

CatalogCallWhileUnselected ==
    /\ ZooIs("vector_field") \/ ZooIs("factory")
    /\ ~RegSelected(tx.reg)

(* C15 as stated: while the registry is unselected, evaluating any catalog
   vector field or calling any catalog factory fails with the registry's
   state error. *)
C15_Original ==
    CatalogCallWhileUnselected => tx.exc = StateError(tx.pkg)

(* C15: while the registry is unselected, a catalog vector field that reads
   the accessor (lotka_volterra) and a factory that reads it (diffeqzoo's
   van_der_pol always, odezoo's van_der_pol when initial_values is omitted)
   fail with the registry's state error and return nothing; van_der_pol and
   logistic are arithmetic on their arguments and return their value, and
   odezoo's van_der_pol factory called with initial values returns its
   record. *)
C15_AccessorGuardsItsReaders ==
    CatalogCallWhileUnselected =>
        IF \/ ZooIs("vector_field") /\ tx.fn = Fn("lotka_volterra")
           \/ ZooIs("factory") /\ tx.pkg = "diffeqzoo"
           \/ ZooIs("factory") /\ tx.pkg = "odezoo" /\ tx.input = None
        THEN tx.exc = StateError(tx.pkg) /\ tx.val = None
        ELSE /\ tx.exc = NoExc
             /\ ZooIs("vector_field") => IsArray(tx.val)
                                          /\ shape(tx.val) = shape(tx.input[1])
             /\ ZooIs("factory") => tx.val.initial_values = tx.input

C15_Witness ==
    /\ CatalogCallWhileUnselected
    /\ ZooIs("vector_field") /\ tx.fn = Fn("van_der_pol")
    /\ data(tx.input[1]) = <<2>> /\ data(tx.input[2]) = <<1>>
    /\ tx.exc = NoExc
    /\ data(tx.val) = <<0 - 5>>

(* the first initial value of a record: the array itself for a first-order
   problem, u0 of the pair (u0, du0) for a second-order problem *)
FirstInitialValue(ode_model) ==
    IF IsArray(ode_model.initial_values) THEN ode_model.initial_values
    ELSE ode_model.initial_values.val[1]

(* C16: shape preservation across the catalog.  For every record a catalog
   factory builds with default arguments, first-order, second-order or made
   by the transform, evaluating the record's vector field at the record's
   initial values with its vector_field_args returns an array of the shape
   of the first initial value; for the transformed problems that is the
   combined vector, twice as long as the wrapped problem's u0. *)
C16_ShapePreserved ==
    /\ (ZooIs("ivps") /\ RegSelected(tx.reg)) => tx.exc = NoExc
    /\ (ZooIs("evaluate") /\ tx.args.kwargs = NoKwargs) =>
            /\ tx.exc = NoExc
            /\ IsArray(tx.val)
            /\ shape(tx.val) = shape(FirstInitialValue(tx.input))
            /\ tx.args.factory.val[2] \in DOMAIN FirstOrderOf =>
                    LET wrapped == FirstOrderOf[tx.args.factory.val[2]]
                        d == NumEntries(IF wrapped = "van_der_pol" THEN <<>>
                                        ELSE Factories[wrapped].u0)
                    IN  /\ shape(tx.input.initial_values) = <<2 * d>>
                        /\ shape(tx.val) = <<2 * d>>

C16_Witness ==
    /\ ZooIs("evaluate") /\ tx.args.kwargs = NoKwargs
    /\ tx.args.factory = FactoryFn("pleiades_first_order")
    /\ tx.fn = second_to_first_order_vf_auto(Fn("pleiades_autonomous_api"))
    /\ shape(tx.input.initial_values) = <<28>>
    /\ tx.exc = NoExc
    /\ shape(tx.val) = <<28>>

(* the record converted is a second-order problem of dimension d with two
   initial values of d entries each *)
SecondOrderProblem(ivp) ==
    /\ ivp.order = PyInt(2)
    /\ Len(ivp.initial_values.val) = 2
    /\ \A i \in 1..2 : shape(ivp.initial_values.val[i]) = <<ivp.dimension.val>>

(* C17: conversion of a second-order problem record.  With the registry
   selected, for every problem with order 2, two initial values and
   dimension d, convert.second_to_first_order_autonomous returns a problem
   with exactly one initial value, the two joined in order, with order 1 and
   dimension 2d; time_span, vector_field_args and has_periodic_solution are
   those of the problem converted. *)
C17_Conversion ==
    (ZooIs("convert") /\ SecondOrderProblem(tx.input) /\ RegSelected(tx.reg)) =>
        /\ tx.exc = NoExc
        /\ Len(tx.val.initial_values.val) = 1
        /\ shape(tx.val.initial_values.val[1]) = <<2 * tx.input.dimension.val>>
        /\ data(tx.val.initial_values.val[1]) =
              data(tx.input.initial_values.val[1]) \o data(tx.input.initial_values.val[2])
        /\ tx.val.order = PyInt(1)
        /\ tx.val.dimension = PyInt(2 * tx.input.dimension.val)
        /\ tx.val.time_span = tx.input.time_span
        /\ tx.val.vector_field_args = tx.input.vector_field_args
        /\ tx.val.has_periodic_solution = tx.input.has_periodic_solution

C17_Witness ==
    /\ ZooIs("convert") /\ SecondOrderProblem(tx.input) /\ tx.exc = NoExc
    /\ tx.input.dimension = PyInt(2)
    /\ tx.input.has_periodic_solution = TRUE
    /\ data(tx.input.initial_values.val[1]) = <<1, 0>>
    /\ data(tx.input.initial_values.val[2]) = <<0, 2>>
    /\ data(tx.val.initial_values.val[1]) = <<1, 0, 0, 2>>
    /\ tx.val.dimension = PyInt(4)
    /\ tx.val.order = PyInt(1)

(* C18: end-to-end Lotka-Volterra value.  After select of the eager backend
   (numpy), the Lotka-Volterra vector field at y = [20, 20] with
   (a, b, c, d) = (0.5, 0.05, 0.5, 0.05) returns the numpy array
   [a*y0 - b*y0*y1, -c*y1 + d*y0*y1] = [-10.0, 10.0]; parameters and value
   are counted in hundredths. *)
C18_LotkaVolterraValue ==
    (/\ ZooIs("vector_field") /\ tx.fn = Fn("lotka_volterra")
     /\ tx.reg.backend_name = NUMPY /\ tx.reg.numpy_backend = Module("numpy")
     /\ data(tx.input[1]) = <<20, 20>>
     /\ SubSeq(tx.input, 2, 5) = <<50, 5, 50, 5>>) =>
        /\ tx.exc = NoExc
        /\ eng(tx.val) = "numpy"
        /\ shape(tx.val) = <<2>>
        /\ data(tx.val) = <<0 - 1000, 1000>>

C18_Witness ==
    /\ ZooIs("vector_field") /\ tx.fn = Fn("lotka_volterra")
    /\ tx.pkg = "diffeqzoo" /\ tx.reg = Bound("numpy")
    /\ data(tx.input[1]) = <<20, 20>>
    /\ SubSeq(tx.input, 2, 5) = <<50, 5, 50, 5>>
    /\ data(tx.val) = <<0 - 1000, 1000>>

(* C19: malformed transform input is not validated locally.  With the
   registry selected, for a combined vector of odd length the transformed
   vector field and the transformed factory end in the error the array
   engine's split raises (ValueError), return nothing, and the wrapped field
   or factory is not called. *)
C19_OddLengthFailsInSplit ==
    (/\ ZooIs("fn_transformed") \/ ZooIs("ivp_fn_transformed")
     /\ tx.input # None /\ IsVector(tx.input) /\ size(tx.input) % 2 = 1
     /\ RegSelected(tx.reg)) =>
        /\ tx.exc = "ValueError"
        /\ tx.val = None
        /\ tx.calls = <<>>

C19_Witness ==
    /\ ZooIs("ivp_fn_transformed")
    /\ tx.input # None /\ IsVector(tx.input) /\ size(tx.input) = 3
    /\ RegSelected(tx.reg)
    /\ tx.exc = "ValueError"
    /\ tx.calls = <<>>


(* ============ select and change_to, statement by statement ============ *)
(* Two threads share the singleton diffeqzoo.backend.  Each thread makes
   one call; a step of a thread is one statement of the method it is in
   (a read or a write of one attribute of the instance, or one import).
   The interpreter may switch threads between any two statements. *)

InCall(t) == threads[t].pc \notin {"idle", "done"}

(* the module the first / second import statement of a branch names *)
NumpyModuleOf(backend_name) ==
    IF backend_name = Str(<<"j", "a", "x">>) THEN "jax.numpy" ELSE "numpy"

RandomModuleOf(backend_name) ==
    IF backend_name = Str(<<"j", "a", "x">>) THEN "jax.random" ELSE "numpy.random"

Raised(th, e) == [th EXCEPT !.pc = "done", !.exc = e]

(* a thread enters select(arg) or change_to(arg) *)
ThreadBegin(t) ==
    /\ threads[t].pc = "idle"
    /\ \E op \in {"select", "change_to"}, arg \in NameInputs :
         threads' = [threads EXCEPT ![t] =
             [@ EXCEPT !.pc = "guard", !.op = op, !.arg = arg,
                       !.during = {u \in Threads \ {t} : InCall(u)},
                       !.after = {u \in Threads : threads[u].pc = "done"}]]
    /\ UNCHANGED <<backend, oz_backend, installed, located, last, prev, ncalls, tx, held>>

(* select: if self.has_been_selected: raise RuntimeError
   change_to: if not self.has_been_selected: raise RuntimeError *)
ThreadGuard(t) ==
    /\ threads[t].pc = "guard"
    /\ threads' = [threads EXCEPT ![t] =
         IF threads[t].op = "select"
         THEN IF has_been_selected(backend)
              THEN Raised(@, "RuntimeError")
              ELSE [@ EXCEPT !.pc = "branch", !.backend_name = lower(threads[t].arg)]
         ELSE IF ~has_been_selected(backend)
              THEN Raised(@, "RuntimeError")
              ELSE [@ EXCEPT !.pc = "compare"]]
    /\ UNCHANGED <<backend, oz_backend, installed, located, last, prev, ncalls, tx, held>>

(* change_to: if self._backend_name == backend_name.lower(): warn *)
ThreadCompare(t) ==
    /\ threads[t].pc = "compare"
    /\ threads' = [threads EXCEPT ![t] =
         [@ EXCEPT !.pc = "branch", !.backend_name = lower(threads[t].arg),
                   !.warned = (backend.backend_name = lower(threads[t].arg))]]
    /\ UNCHANGED <<backend, oz_backend, installed, located, last, prev, ncalls, tx, held>>

(* _select_backend: the branch on the name and the first import of the
   branch taken; an unknown name raises ValueError *)
ThreadImportNumpy(t) ==
    /\ threads[t].pc = "branch"
    /\ LET th == threads[t]
           m == NumpyModuleOf(th.backend_name)
       IN  IF th.backend_name \notin {Str(<<"j", "a", "x">>), Str(<<"n", "u", "m", "p", "y">>)}
           THEN /\ threads' = [threads EXCEPT ![t] = Raised(th, "ValueError")]
                /\ UNCHANGED located
           ELSE IF ~CanImport(m, installed)
           THEN /\ threads' = [threads EXCEPT ![t] = Raised(th, "ModuleNotFoundError")]
                /\ UNCHANGED located
           ELSE /\ threads' = [threads EXCEPT ![t] =
                       [th EXCEPT !.pc = "import_random", !.numpy_local = Module(m)]]
                /\ located' = located \cup {m}
    /\ UNCHANGED <<backend, oz_backend, installed, last, prev, ncalls, tx, held>>

(* _select_backend: the second import of the branch *)
ThreadImportRandom(t) ==
    /\ threads[t].pc = "import_random"
    /\ LET th == threads[t]
           m == RandomModuleOf(th.backend_name)
       IN  IF ~CanImport(m, installed)
           THEN /\ threads' = [threads EXCEPT ![t] = Raised(th, "ModuleNotFoundError")]
                /\ UNCHANGED located
           ELSE /\ threads' = [threads EXCEPT ![t] =
                       [th EXCEPT !.pc = "bind_numpy", !.random_local = Module(m)]]
                /\ located' = located \cup {m}
    /\ UNCHANGED <<backend, oz_backend, installed, last, prev, ncalls, tx, held>>

(* self._numpy_backend = jnp (or np); replaced remembers the value the
   attribute held just before the assignment *)
ThreadBindNumpy(t) ==
    /\ threads[t].pc = "bind_numpy"
    /\ backend' = [backend EXCEPT !.numpy_backend = threads[t].numpy_local]
    /\ threads' = [threads EXCEPT ![t] =
         [@ EXCEPT !.pc = "bind_random", !.replaced = backend.numpy_backend]]
    /\ UNCHANGED <<oz_backend, installed, located, last, prev, ncalls, tx, held>>

(* self._random_backend = jax_random (or np_random) *)
ThreadBindRandom(t) ==
    /\ threads[t].pc = "bind_random"
    /\ backend' = [backend EXCEPT !.random_backend = threads[t].random_local]
    /\ threads' = [threads EXCEPT ![t] = [@ EXCEPT !.pc = "bind_name"]]
    /\ UNCHANGED <<oz_backend, installed, located, last, prev, ncalls, tx, held>>

(* self._backend_name = backend_name, and the call returns *)
ThreadBindName(t) ==
    /\ threads[t].pc = "bind_name"
    /\ backend' = [backend EXCEPT !.backend_name = threads[t].backend_name]
    /\ threads' = [threads EXCEPT ![t] = [@ EXCEPT !.pc = "done"]]
    /\ UNCHANGED <<oz_backend, installed, located, last, prev, ncalls, tx, held>>

(* Before the threads start, the main thread may have made the first
   selection (no other thread runs yet, so the call is one step). *)
MainSelect ==
    /\ \A t \in Threads : threads[t].pc = "idle"
    /\ backend = backend_init
    /\ \E arg \in NameInputs :
         LET r == select(backend, arg, installed)
         IN  /\ r.exc = NoExc
             /\ backend' = r.self
             /\ located' = located \cup r.imports
    /\ UNCHANGED <<oz_backend, installed, last, prev, ncalls, tx, threads, held>>

(* A reader thread reads backend.numpy, then backend.random, then
   backend.name.  Each property is two reads of the instance (the guard
   and the return) or one (name). *)
ThreadBeginRead(t) ==
    /\ threads[t].pc = "idle"
    /\ threads' = [threads EXCEPT ![t] =
         [@ EXCEPT !.pc = "numpy_guard", !.op = "read",
                   !.during = {u \in Threads \ {t} : InCall(u)},
                   !.after = {u \in Threads : threads[u].pc = "done"}]]
    /\ UNCHANGED <<backend, oz_backend, installed, located, last, prev, ncalls, tx, held>>

(* numpy / random: if not self.has_been_selected: raise RuntimeError *)
ThreadReadGuard(t) ==
    /\ threads[t].pc \in {"numpy_guard", "random_guard"}
    /\ threads' = [threads EXCEPT ![t] =
         IF ~has_been_selected(backend)
         THEN Raised(@, "RuntimeError")
         ELSE [@ EXCEPT !.pc = IF threads[t].pc = "numpy_guard"
                               THEN "numpy_return" ELSE "random_return"]]
    /\ UNCHANGED <<backend, oz_backend, installed, located, last, prev, ncalls, tx, held>>

(* numpy: return self._numpy_backend *)
ThreadReadNumpy(t) ==
    /\ threads[t].pc = "numpy_return"
    /\ threads' = [threads EXCEPT ![t] =
         [@ EXCEPT !.pc = "random_guard", !.seen_numpy = backend.numpy_backend]]
    /\ UNCHANGED <<backend, oz_backend, installed, located, last, prev, ncalls, tx, held>>

(* random: return self._random_backend *)
ThreadReadRandom(t) ==
    /\ threads[t].pc = "random_return"
    /\ threads' = [threads EXCEPT ![t] =
         [@ EXCEPT !.pc = "name_return", !.seen_random = backend.random_backend]]
    /\ UNCHANGED <<backend, oz_backend, installed, located, last, prev, ncalls, tx, held>>

(* name: return self._backend_name, and the reader is done *)
ThreadReadName(t) ==
    /\ threads[t].pc = "name_return"
    /\ threads' = [threads EXCEPT ![t] =
         [@ EXCEPT !.pc = "done", !.seen_name = name(backend)]]
    /\ UNCHANGED <<backend, oz_backend, installed, located, last, prev, ncalls, tx, held>>

NextThreads ==
    \/ MainSelect
    \/ \E t \in Threads : ThreadBeginRead(t)
    \/ \E t \in Threads : ThreadReadGuard(t)
    \/ \E t \in Threads : ThreadReadNumpy(t)
    \/ \E t \in Threads : ThreadReadRandom(t)
    \/ \E t \in Threads : ThreadReadName(t)
    \/ \E t \in Threads : ThreadBegin(t)
    \/ \E t \in Threads : ThreadGuard(t)
    \/ \E t \in Threads : ThreadCompare(t)
    \/ \E t \in Threads : ThreadImportNumpy(t)
    \/ \E t \in Threads : ThreadImportRandom(t)
    \/ \E t \in Threads : ThreadBindNumpy(t)
    \/ \E t \in Threads : ThreadBindRandom(t)
    \/ \E t \in Threads : ThreadBindName(t)

SpecThreads == Init /\ [][NextThreads]_vars

(* ---------------- vocabulary of the thread properties ----------------- *)
Succeeded(t, op) ==
    /\ threads[t].pc = "done"
    /\ threads[t].op = op
    /\ threads[t].exc = NoExc

(* the calls of t and u overlapped in time: one began while the other was
   inside its call (during); after holds the threads whose call had ended
   when this one began *)
Overlapped(t, u) == u \in threads[t].during \/ t \in threads[u].during

(* C20: two select calls on an Unselected registry both return normally
   only if they overlapped, and then the one that assigned _numpy_backend
   second did so over the other's binding without an error or a warning;
   when the two calls are made one after the other, the second raises
   RuntimeError and replaces nothing. *)
C20_OneShotOnlyWhenSerialized ==
    \A t, u \in Threads :
        /\ (t # u /\ Succeeded(t, "select") /\ Succeeded(u, "select"))
              => /\ Overlapped(t, u)
                 /\ ~threads[t].warned /\ ~threads[u].warned
                 /\ \/ threads[t].replaced = threads[u].numpy_local
                    \/ threads[u].replaced = threads[t].numpy_local
        /\ (Succeeded(u, "select") /\ u \in threads[t].after
              /\ threads[t].op = "select" /\ threads[t].pc # "guard")
              => /\ threads[t].pc = "done"
                 /\ threads[t].exc = "RuntimeError"
                 /\ threads[t].replaced = None

(* both selects returned normally, for different engines, and the registry
   ends bound to the engine of the one that assigned last *)
C20_Witness ==
    /\ Succeeded("t1", "select") /\ Succeeded("t2", "select")
    /\ threads["t1"].backend_name = Str(<<"j", "a", "x">>)
    /\ threads["t2"].backend_name = Str(<<"n", "u", "m", "p", "y">>)
    /\ threads["t2"].replaced = Module("jax.numpy")
    /\ threads["t1"].replaced = None
    /\ backend = Bound("numpy")


(* the three attributes of the instance belong to one engine *)
OneEngine(self) == \E e \in Engines : self = Bound(e)

(* C21: while a change_to call runs concurrently with a reader of the
   accessors (on a registry selected before the threads started), the
   attributes the reader can read at any moment - array_ops, random_ops
   and name - belong to one engine. *)
C21_ReadersSeeOneEngine ==
    \A r, c \in Threads :
        (/\ threads[r].op = "read" /\ InCall(r)
         /\ threads[c].op = "change_to" /\ InCall(c)
         /\ threads[c].pc # "guard")
            => OneEngine(backend)


(* ======== records handed from one factory call to the next ============ *)
(* A single thread selects, changes the selection and calls factories; the
   only arrays it has are the initial values of the record it got last,
   which it may pass to its next call of a factory of the same package as
   initial_values. *)

(* the values the caller may pass as initial_values to a second-order
   factory (a pair) / to a transformed factory (one array) *)
Held(pkg, initial_values) == [type |-> "held", pkg |-> pkg, val |-> initial_values]

HeldPair(pkg) ==
    IF held # None /\ held.pkg = pkg /\ held.val.type \in {"tuple", "list"}
    THEN {held.val} ELSE {}

HeldArray(pkg) ==
    IF held # None /\ held.pkg = pkg /\ IsArray(held.val) THEN {held.val} ELSE {}

InitialValuesKwargs(y) == IF y = None THEN NoKwargs ELSE WithInitialValues(NoKwargs, y)

(* ivps.van_der_pol of either package *)
CallFactoryAgain ==
    /\ tx = NoCall
    /\ \E pkg \in Packages : \E y \in HeldPair(pkg) \cup {None} :
          LET kwargs == InitialValuesKwargs(y) IN
          tx' = ZooCall(pkg, "record", FactoryFn("van_der_pol"), y, kwargs,
                        RegistryOf(pkg),
                        IF pkg = "odezoo" THEN ivps_van_der_pol(kwargs, oz_backend)
                        ELSE dz_ivps_van_der_pol(kwargs, backend))
    /\ UNCHANGED <<backend, oz_backend, installed, located, last, prev, ncalls, threads, held>>

(* odezoo.ivps.van_der_pol_first_order *)
CallTransformedAgain ==
    /\ tx = NoCall
    /\ \E y \in HeldArray("odezoo") \cup {None} :
          LET kwargs == InitialValuesKwargs(y) IN
          tx' = ZooCall("odezoo", "record", second_to_first_order_vf_auto(FactoryFn("van_der_pol")),
                        y, kwargs, oz_backend,
                        ivp_fn_transformed(FactoryFn("van_der_pol"), kwargs, oz_backend))
    /\ UNCHANGED <<backend, oz_backend, installed, located, last, prev, ncalls, threads, held>>

(* the call returns; the caller keeps the initial values of the record *)
KeepRecord ==
    /\ tx # NoCall
    /\ tx' = NoCall
    /\ held' = IF tx.exc = NoExc THEN Held(tx.pkg, tx.val.initial_values) ELSE held
    /\ UNCHANGED <<backend, oz_backend, installed, located, last, prev, ncalls, threads>>

NextRecords ==
    \/ ZooSelect
    \/ ZooChangeTo
    \/ ZooOzSelect
    \/ ZooOzChangeTo
    \/ CallFactoryAgain
    \/ CallTransformedAgain
    \/ KeepRecord

SpecRecords == Init /\ [][NextRecords]_vars

(* the arrays inside initial_values *)
ArraysOf(initial_values) ==
    IF IsArray(initial_values) THEN {initial_values}
    ELSE {initial_values.val[i] : i \in 1..Len(initial_values.val)}

(* C22: every array inside the record a factory call returns was made by
   the engine that the registry of the factory's package held when the call
   was made. *)
C22_SingleBackendRecords ==
    (ZooIs("record") /\ tx.exc = NoExc)
        => \A a \in ArraysOf(tx.val.initial_values) :
               eng(a) = HandleEngine(tx.reg.numpy_backend)


(* ================ wrapping at import, evaluation later ================ *)

(* the function object second_to_first_order_auto(ivp_fn) returns *)
second_to_first_order_auto(ivp_fn) ==
    [type |-> "function", val |-> <<"ivp_fn_transformed", ivp_fn>>]

(* faulty variant of the catalog module: array_ops is looked up once, when
   the module is imported *)
import_catalog_binds_array_ops(self) ==
    LET np1 == oz_numpy(self) IN
    IF np1.exc # NoExc THEN Raise(np1.exc, <<>>)
    ELSE Ok(<<second_to_first_order_vf_auto(Fn("van_der_pol")),
              second_to_first_order_auto(FactoryFn("van_der_pol"))>>, <<>>)

(* The module-level statements of the catalog that wrap a vector field and
   a factory while the registry is in state self: the wrappers only define
   the inner function and edit docstrings. *)
import_catalog(self) ==
    Ok(<<second_to_first_order_vf_auto(Fn("van_der_pol")),
         second_to_first_order_auto(FactoryFn("van_der_pol"))>>, <<>>)

(* what the caller keeps of the import: the two function objects, whether
   they were made while Unselected, and the engines that the arrays they
   returned so far belong to *)
Imported(fns, self) ==
    [fns |-> fns, unselected |-> ~oz_has_been_selected(self),
     computed |-> {}, made |-> {}]

ImportCatalog ==
    /\ tx = NoCall
    /\ held = None
    /\ LET r == import_catalog(oz_backend) IN
       /\ tx' = ZooCall("odezoo", "import", Fn("second_to_first_order_vf_auto"),
                        None, <<>>, oz_backend, r)
       /\ held' = IF r.exc = NoExc THEN Held("odezoo", Imported(r.val, oz_backend))
                  ELSE held
    /\ UNCHANGED <<backend, oz_backend, installed, located, last, prev, ncalls, threads>>

(* g(y, args...) for the wrapped vector field g made at import *)
EvalImportedField ==
    /\ tx = NoCall
    /\ held # None
    /\ \E e \in installed : \E y \in ShortVectors(e) \cup Scalars(e) : \E args \in {<<1>>, <<2>>} :
          LET g == held.val.fns[1]
              r == fn_transformed(g.val[2], y, args, oz_backend)
          IN  /\ tx' = ZooCall("odezoo", "imported_field", g, y, args, oz_backend, r)
              /\ held' = IF r.exc # NoExc THEN held
                         ELSE [held EXCEPT !.val.computed = @ \cup {eng(r.val)}]
    /\ UNCHANGED <<backend, oz_backend, installed, located, last, prev, ncalls, threads>>

(* G(initial_values=y) or G() for the wrapped factory G made at import *)
CallImportedFactory ==
    /\ tx = NoCall
    /\ held # None
    /\ \E e \in installed : \E y \in ShortVectors(e) \cup {None} :
          LET G == held.val.fns[2]
              kwargs == InitialValuesKwargs(y)
              r == ivp_fn_transformed(G.val[2], kwargs, oz_backend)
          IN  /\ tx' = ZooCall("odezoo", "imported_factory", G, y, kwargs, oz_backend, r)
              /\ held' = IF r.exc # NoExc THEN held
                         ELSE [held EXCEPT !.val.made = @ \cup {eng(r.val.initial_values)}]
    /\ UNCHANGED <<backend, oz_backend, installed, located, last, prev, ncalls, threads>>

NextCapture ==
    \/ ZooOzSelect
    \/ ZooOzChangeTo
    \/ ImportCatalog
    \/ EvalImportedField
    \/ CallImportedFactory
    \/ ZooReturn

SpecCapture == Init /\ [][NextCapture]_vars

(* C23: wrapping a vector field or a factory succeeds whatever the state of
   the registry, Unselected included; every later call of the wrapped
   function fails with the registry's error if the registry is Unselected at
   that moment, and otherwise returns arrays of the engine the registry
   holds at that moment. *)
C23_CallTimeCapture ==
    /\ ZooIs("import") => tx.exc = NoExc /\ held # None
    /\ (ZooIs("imported_field") \/ ZooIs("imported_factory"))
          => IF ~oz_has_been_selected(tx.reg) THEN tx.exc = "Exception"
             ELSE tx.exc = NoExc =>
                    LET out == IF tx.op = "imported_field" THEN tx.val
                               ELSE tx.val.initial_values
                    IN  eng(out) = HandleEngine(tx.reg.numpy_backend)

(* functions wrapped while Unselected have computed with one engine and,
   after a change_to, the same function objects compute with the other *)
C23_Witness ==
    /\ ZooIs("imported_field") /\ tx.exc = NoExc
    /\ held.val.unselected
    /\ held.val.computed = {"jax", "numpy"}
    /\ held.val.made = {"jax", "numpy"}
    /\ tx.fn = held.val.fns[1]


(* ================= the converted vector field (convert.f) ============= *)

(* y[:k] and y[k:] of a one-dimensional array; a bound of None leaves the
   side open *)
SliceTo(y, k) ==
    LET n == IF k = None THEN size(y) ELSE IF k.val < size(y) THEN k.val ELSE size(y)
    IN  Array(eng(y), <<n>>, SubSeq(data(y), 1, n))

SliceFrom(y, k) ==
    LET n == IF k = None THEN 0 ELSE IF k.val < size(y) THEN k.val ELSE size(y)
    IN  Array(eng(y), <<size(y) - n>>, SubSeq(data(y), n + 1, size(y)))

(* f(y, args...), the closure second_to_first_order_autonomous(ivp=ivp)
   stores as vector_field; np is the outcome of reading backend.numpy, for
   the fields that read it *)
convert_f(ivp, y, args, np) ==
    IF ndim(y) = 0 THEN Raise("IndexError", <<>>) ELSE
    LET u == SliceTo(y, ivp.dimension)
        du == SliceFrom(y, ivp.dimension)
    IN  call_fn(ivp.vector_field, <<u, du>> \o args, np)

(* the states a caller evaluates the converted field at: the record's own
   initial value, as the tests do, and for a problem of dimension 1 every
   vector that long made by the same engine *)
StatesOf(ivp_converted) ==
    LET y0 == ivp_converted.initial_values.val[1] IN
    {y0} \cup {y \in ShortVectors(eng(y0)) : size(y) = size(y0)}

(* ivp_converted.vector_field(y, ivp_converted.vector_field_args...) for the
   record the conversion has just returned *)
EvalConverted ==
    /\ ZooIs("convert")
    /\ tx.exc = NoExc
    /\ \E y \in StatesOf(tx.val) :
          LET f == tx.val.vector_field
              ivp == f.val[2]
          IN  tx' = ZooCall("odezoo", "convert_f", f, y, tx.val.vector_field_args.val,
                            oz_backend,
                            convert_f(ivp, y, tx.val.vector_field_args.val,
                                      oz_numpy(oz_backend)))
    /\ UNCHANGED <<backend, oz_backend, installed, located, last, prev, ncalls, threads, held>>

NextConvert ==
    \/ ZooOzSelect
    \/ ZooOzChangeTo
    \/ Convert
    \/ EvalConverted
    \/ ZooReturn

SpecConvert == Init /\ [][NextConvert]_vars

(* C24: the converted vector field, applied to y of length 2d, returns
   concat(du, ddu) of length 2d, where u and du are the first and the last d
   entries of y and ddu is the value of the second-order field at (u, du). *)
C24_ConvertedField ==
    (ZooIs("convert_f") /\ size(tx.input) = 2 * tx.fn.val[2].dimension.val)
        => /\ tx.exc = NoExc
           /\ Len(tx.calls) = 1
           /\ LET d == tx.fn.val[2].dimension.val
                  c == tx.calls[1]
              IN  /\ c.fn = tx.fn.val[2].vector_field
                  /\ c.args = <<SliceTo(tx.input, PyInt(d)), SliceFrom(tx.input, PyInt(d))>>
                                 \o tx.args
                  /\ shape(tx.val) = <<2 * d>>
                  /\ data(tx.val) = data(c.args[2]) \o data(c.ret)


(* ============ transformed factories called without initial_values ===== *)

(* the second-order factories of diffeqzoo.ivps that the catalog transforms:
   the vector field and the shape of each of the two default initial values
   (the default of initial_values is a pair of tuples of numbers) *)
dz_SecondOrder ==
    [van_der_pol |-> [vector_field |-> "van_der_pol", u0 |-> <<>>],
     pleiades_with_unused_derivative_argument |->
        [vector_field |-> "pleiades_with_unused_derivative_argument", u0 |-> <<7 + 7>>],
     henon_heiles_with_unused_derivative_argument |->
        [vector_field |-> "henon_heiles_with_unused_derivative_argument", u0 |-> <<2>>],
     three_body_restricted |-> [vector_field |-> "three_body_restricted", u0 |-> <<2>>]]

(* faulty variant: initial_values has no default, the caller must pass it *)
dz_ivps_second_order_takes_no_default(fname, kwargs, self) ==
    IF "initial_values" \notin DOMAIN kwargs \/ kwargs["initial_values"] = None
    THEN Raise("TypeError", <<>>)
    ELSE dz_ivps_van_der_pol(kwargs, self)

(* diffeqzoo.ivps.<fname>(kwargs...) for a second-order factory:
   u0, du0 = initial_values comes first (None cannot be unpacked), then both
   are converted with backend.numpy.asarray; of the defaults other than
   van_der_pol's only the shapes are followed *)
dz_ivps_second_order(fname, kwargs, self) ==
    IF "initial_values" \in DOMAIN kwargs /\ kwargs["initial_values"] = None
    THEN Raise("TypeError", <<>>)
    ELSE IF fname = "van_der_pol" THEN dz_ivps_van_der_pol(kwargs, self)
    ELSE LET np1 == numpy(self) IN
         IF np1.exc # NoExc THEN Raise(np1.exc, <<>>) ELSE
         LET u0 == Zeros(HandleEngine(np1.ret), dz_SecondOrder[fname].u0)
             initial_values ==
                 IF "initial_values" \in DOMAIN kwargs
                 THEN Tuple(<<np_asarray(np1.ret, kwargs["initial_values"].val[1]),
                              np_asarray(np1.ret, kwargs["initial_values"].val[2])>>)
                 ELSE Tuple(<<u0, u0>>)
         IN  Ok(InitialValueProblem(Fn(dz_SecondOrder[fname].vector_field),
                                    initial_values, DefaultTimeSpan, Tuple(<<>>)), <<>>)

(* the keywords without initial_values *)
Omit(kwargs) == [k \in DOMAIN kwargs \ {"initial_values"} |-> kwargs[k]]

(* The factory diffeqzoo.transform.second_to_first_order_auto(ivp_fn)
   returns.  A combined initial_values that the caller supplies is split in
   half and passed on as (u0, du0); when the caller omits it, the wrapped
   factory is called with the remaining keywords only.  The record returned
   has initial_values replaced by the stacked / concatenated (u0, du0) of the
   wrapped factory's record and vector_field by the transformed field. *)
dz_ivp_fn_transformed(fname, kwargs, self) ==
    LET given == Kw(kwargs, "initial_values", None)
        np1 == numpy(self)
    IN
    IF given # None /\ np1.exc # NoExc THEN Raise(np1.exc, <<>>) ELSE
    LET halves == IF given # None THEN np_split(np1.ret, given, 2) ELSE Ok(None, <<>>) IN
    IF halves.exc # NoExc THEN Raise(halves.exc, <<>>) ELSE
    LET passed == IF given # None THEN WithInitialValues(Omit(kwargs), List(halves.val))
                  ELSE Omit(kwargs)
        r == dz_ivps_second_order(fname, passed, self)
        call == [fn |-> FactoryFn(fname), args |-> passed, ret |-> r.val]
    IN
    IF r.exc # NoExc THEN Raise(r.exc, <<call>>) ELSE
    LET u0s == r.val.initial_values.val
        np2 == numpy(self)
    IN
    IF np2.exc # NoExc THEN Raise(np2.exc, <<call>>) ELSE
    LET combined == IF ndim(u0s[1]) = 0 THEN np_stack(np2.ret, u0s)
                    ELSE np_concatenate_flat(np2.ret, u0s)
    IN
    IF combined.exc # NoExc THEN Raise(combined.exc, <<call>>) ELSE
    Ok(replace(r.val, combined.val,
               second_to_first_order_vf_auto(r.val.vector_field)).ret, <<call>>)

(* a transformed factory of either catalog called without initial_values;
   van_der_pol takes the other keywords of KwargsInputs *)
TransformedFactories(pkg) ==
    IF pkg = "odezoo" THEN {FirstOrderOf[f] : f \in DOMAIN FirstOrderOf}
    ELSE DOMAIN dz_SecondOrder

CallOmitted ==
    /\ tx = NoCall
    /\ \E pkg \in Packages : \E fname \in TransformedFactories(pkg) :
       \E kwargs \in IF fname = "van_der_pol" THEN KwargsInputs ELSE {NoKwargs} :
          tx' = ZooCall(pkg, "omitted", FactoryFn(fname), None, kwargs, RegistryOf(pkg),
                        IF pkg = "odezoo"
                        THEN ivp_fn_transformed(FactoryFn(fname), kwargs, oz_backend)
                        ELSE dz_ivp_fn_transformed(fname, kwargs, backend))
    /\ UNCHANGED <<backend, oz_backend, installed, located, last, prev, ncalls, threads, held>>

NextOmitted ==
    \/ ZooSelect
    \/ ZooChangeTo
    \/ ZooOzSelect
    \/ ZooOzChangeTo
    \/ CallOmitted
    \/ ZooReturn

SpecOmitted == Init /\ [][NextOmitted]_vars

(* the combination of a pair (u0, du0): the entries of u0, then those of
   du0, in one array of one dimension *)
Combination(pair) ==
    Array(eng(pair[1]), <<size(pair[1]) + size(pair[2])>>, data(pair[1]) \o data(pair[2]))

(* C25: a transformed factory called without initial_values, with the
   registry selected, returns a record; the wrapped factory was called once,
   without initial values of the caller's, and the record's initial_values is
   the combination of the pair (u0, du0) in the wrapped factory's record. *)
C25_OmittedInitialValues ==
    (ZooIs("omitted") /\ tx.reg.numpy_backend # None)
        => /\ tx.exc = NoExc
           /\ Len(tx.calls) = 1
           /\ tx.calls[1].fn = tx.fn
           /\ Kw(tx.calls[1].args, "initial_values", None) = None
           /\ \A k \in DOMAIN tx.args : tx.calls[1].args[k] = tx.args[k]
           /\ tx.calls[1].ret.initial_values.type = "tuple"
           /\ Len(tx.calls[1].ret.initial_values.val) = 2
           /\ tx.val.initial_values = Combination(tx.calls[1].ret.initial_values.val)
           /\ \A a \in ArraysOf(tx.calls[1].ret.initial_values) :
                 eng(a) = HandleEngine(tx.reg.numpy_backend)

(* diffeqzoo's van_der_pol, whose default is the pair (2.0, 0.0): the
   transformed factory returns the array (2, 0) *)
C25_Witness ==
    /\ ZooIs("omitted") /\ tx.exc = NoExc
    /\ tx.pkg = "diffeqzoo" /\ tx.fn = FactoryFn("van_der_pol")
    /\ tx.val.initial_values = Array("numpy", <<2>>, <<2, 0>>)


(* C26 as stated: the transformed vector field evaluated on a combined
   state of length 2 hands two 0-dimensional halves to the wrapped field
   (and so builds its result by stacking). *)
C26_Original ==
    (ZooIs("fn_transformed") /\ shape(tx.input) = <<2>> /\ tx.exc = NoExc)
        => /\ ndim(tx.calls[1].args[1]) = 0
           /\ ndim(tx.calls[1].args[2]) = 0

(* C26 amended: split keeps the number of dimensions, so the halves of a
   combined state of length 2 are one-dimensional arrays of length 1 and the
   transformed vector field always builds its result by concatenating
   (du, ddu) into one array of one dimension; stacking is what the
   transformed factory does when the wrapped factory's u0 and du0 are
   0-dimensional, and it concatenates when they have one dimension. *)
C26_HalvesKeepTheirDimension ==
    /\ (ZooIs("fn_transformed") /\ tx.exc = NoExc)
          => LET u == tx.calls[1].args[1]
                 du == tx.calls[1].args[2]
                 ddu == tx.calls[1].ret
             IN  /\ ndim(tx.input) = 1
                 /\ shape(u) = <<size(tx.input) \div 2>>
                 /\ shape(du) = shape(u)
                 /\ shape(tx.val) = <<size(du) + size(ddu)>>
                 /\ data(tx.val) = data(du) \o data(ddu)
    /\ (ZooIs("ivp_fn_transformed") /\ tx.exc = NoExc)
          => LET u0s == tx.calls[1].ret.initial_values.val
             IN  /\ ndim(u0s[1]) \in {0, 1}
                 /\ ndim(u0s[1]) = 0 <=> tx.input = None
                 /\ shape(tx.val.initial_values) = <<size(u0s[1]) + size(u0s[2])>>
                 /\ data(tx.val.initial_values) = data(u0s[1]) \o data(u0s[2])

(* a combined state of length 2: the halves are arrays of shape (1,) *)
C26_Witness ==
    /\ ZooIs("fn_transformed") /\ tx.exc = NoExc
    /\ tx.fn = Fn("van_der_pol")
    /\ tx.input = Array("numpy", <<2>>, <<2, 0>>)
    /\ tx.calls[1].args[1] = Array("numpy", <<1>>, <<2>>)
    /\ tx.calls[1].args[2] = Array("numpy", <<1>>, <<0>>)
    /\ shape(tx.val) = <<2>>

(* ================================ C27 ================================= *)
(* C27: failure atomicity of the registry.  Every select or change_to     *)
(* call that raises (state error, ValueError for an unknown name, or the   *)
(* import error of an engine that is not installed) leaves the registry    *)
(* it was made on - name, array handle, random handle - exactly as it was  *)
(* before the call; and after a change_to with an unknown name on a bound  *)
(* registry both accessors still return the handles of the engine that     *)
(* was bound.  Stated for both registries.                                 *)
C27_FailureAtomicity ==
    [][ /\ ((DzStep("select") \/ DzStep("change_to")) /\ last'.exc # NoExc)
            => backend' = backend
        /\ ((OzStep("select") \/ OzStep("change_to")) /\ last'.exc # NoExc)
            => oz_backend' = oz_backend
        /\ (DzStep("change_to") /\ last'.arg \in UnknownInputs
              /\ has_been_selected(backend))
            => /\ last'.exc = "ValueError"
               /\ numpy(backend') = numpy(backend) /\ numpy(backend').exc = NoExc
               /\ random(backend') = random(backend) /\ random(backend').exc = NoExc
        /\ (OzStep("change_to") /\ last'.arg \in UnknownInputs
              /\ oz_has_been_selected(oz_backend))
            => /\ last'.exc = "ValueError"
               /\ oz_numpy(oz_backend') = oz_numpy(oz_backend)
               /\ oz_numpy(oz_backend').exc = NoExc
      ]_vars

(* select("numpy") succeeded where JAX is not installed, change_to("jax")  *)
(* then failed in the import, and the registry is still bound to NumPy     *)
C27_Witness ==
    /\ installed = {"numpy"}
    /\ DzCall(prev, "select") /\ prev.arg = NUMPY /\ prev.exc = NoExc
    /\ DzCall(last, "change_to") /\ last.arg = JAX
    /\ last.exc = "ModuleNotFoundError"
    /\ SelectedAs("numpy")
    /\ numpy(backend).ret = Module("numpy")

(* ================================ C28 ================================= *)
(* C28: guard precedence.  The ordering check comes before the name is    *)
(* validated: select with an unknown name on a bound registry raises the   *)
(* state error (RuntimeError), not ValueError, and change_to with an       *)
(* unknown name on an Unselected registry raises the state error, not      *)
(* ValueError; no module is imported and no warning is issued.  Stated     *)
(* for both registries.                                                    *)
C28_GuardPrecedence ==
    [][ /\ (DzStep("select") /\ has_been_selected(backend)
              /\ last'.arg \in UnknownInputs)
            => (last'.exc = "RuntimeError" /\ last'.imports = {} /\ ~last'.warned)
        /\ (DzStep("change_to") /\ ~has_been_selected(backend)
              /\ last'.arg \in UnknownInputs)
            => (last'.exc = "RuntimeError" /\ last'.imports = {} /\ ~last'.warned)
        /\ (OzStep("select") /\ oz_has_been_selected(oz_backend)
              /\ last'.arg \in UnknownInputs)
            => (last'.exc = "RuntimeError" /\ last'.imports = {} /\ ~last'.warned)
        /\ (OzStep("change_to") /\ ~oz_has_been_selected(oz_backend)
              /\ last'.arg \in UnknownInputs)
            => (last'.exc = "RuntimeError" /\ last'.imports = {} /\ ~last'.warned)
      ]_vars

(* select("jax") bound JAX, then select("jaxx") on the bound registry      *)
(* raised the state error                                                  *)
C28_Witness ==
    /\ DzCall(prev, "select") /\ prev.arg = JAX /\ prev.exc = NoExc
    /\ DzCall(last, "select") /\ last.arg = Str(<<"j", "a", "x", "x">>)
    /\ last.exc = "RuntimeError"
    /\ SelectedAs("jax")

(* ================================ C29 ================================= *)
(* C29: name consistency.  In every state reached by a sequence of        *)
(* select and change_to calls (and accessor reads), has_been_selected is   *)
(* true if and only if name is set; and when name is set it is the         *)
(* lower-case identifier of exactly the engine whose modules the array     *)
(* handle and the random handle hold.                                      *)
C29_NameConsistency ==
    /\ has_been_selected(backend) <=> (name(backend) # None)
    /\ (name(backend) # None)
          => /\ name(backend) \in SupportedNames
             /\ IsLowerCase(name(backend))
             /\ numpy(backend).ret.type = "module"
             /\ random(backend).ret.type = "module"
             /\ HandleEngine(numpy(backend).ret) = EngineNamed(name(backend))
             /\ HandleEngine(random(backend).ret) = EngineNamed(name(backend))
             /\ backend = Bound(EngineNamed(name(backend)))

(* select("numpy"), then change_to("JAX") rebinds: the name is "jax" and   *)
(* both handles are JAX modules                                            *)
C29_Witness ==
    /\ DzCall(prev, "select") /\ prev.arg = NUMPY /\ prev.exc = NoExc
    /\ DzCall(last, "change_to") /\ last.arg = Str(<<"J", "A", "X">>)
    /\ last.exc = NoExc /\ ~last.warned
    /\ name(backend) = JAX
    /\ HandleEngine(backend.numpy_backend) = "jax"
    /\ HandleEngine(backend.random_backend) = "jax"

(* ================ the epidemic models (sir, seir, sird) ================ *)

RECURSIVE SumOf(_)
SumOf(d) == IF d = <<>> THEN 0 ELSE Head(d) + SumOf(Tail(d))

(* np.sum(x): the sum of all entries of an array or of a Python number,
   a 0-dimensional array of the engine of np *)
np_sum(np, x) ==
    IF x.type = "float" THEN Array(HandleEngine(np), <<>>, <<x.val>>)
    ELSE Array(HandleEngine(np), <<>>, <<SumOf(data(x))>>)

(* x[0] of a one-dimensional array, a tuple or a list of numbers *)
getitem0(x) ==
    IF IsArray(x) THEN
        IF ndim(x) = 0 \/ size(x) = 0 THEN Raise("IndexError", <<>>)
        ELSE Ok(Array(eng(x), <<>>, <<data(x)[1]>>), <<>>)
    ELSE IF Len(x.val) = 0 THEN Raise("IndexError", <<>>)
    ELSE Ok(Float(x.val[1]), <<>>)

(* the epidemic factories: the vector field, the default initial values
   and the rate parameters with their defaults in thousandths, in the
   order of vector_field_args *)
Epidemic ==
    [sir |-> [default |-> <<998, 1, 1>>,
              rates |-> <<"beta", "gamma">>,
              defaults |-> [beta |-> 300, gamma |-> 100]],
     seir |-> [default |-> <<998, 1, 1, 1>>,
               rates |-> <<"alpha", "beta", "gamma">>,
               defaults |-> [alpha |-> 300, beta |-> 300, gamma |-> 100]],
     sird |-> [default |-> <<998, 1, 1, 0>>,
               rates |-> <<"beta", "gamma", "eta">>,
               defaults |-> [beta |-> 300, gamma |-> 100, eta |-> 5]]]

(* the rate parameters as passed or by default, then the population count *)
EpidemicParameters(fname, kwargs, population_count) ==
    LET entry == Epidemic[fname] IN
    Tuple([i \in 1..Len(entry.rates) |->
              Kw(kwargs, entry.rates[i], entry.defaults[entry.rates[i]])]
          \o <<population_count>>)

(* odezoo.ivps.sir / seir / sird(initial_values=, time_span=, rates):
   initial_values is converted only when it is None *)
ivps_epidemic(fname, kwargs, self) ==
    LET given == Kw(kwargs, "initial_values", None)
        time_span == Kw(kwargs, "time_span", TimeSpan(0, 2000))
        np1 == oz_numpy(self)
    IN
    IF np1.exc # NoExc THEN Raise(np1.exc, <<>>) ELSE
    LET initial_values ==
            IF given = None THEN np_asarray(np1.ret, List(Epidemic[fname].default))
            ELSE given
        first == getitem0(initial_values)
    IN
    IF first.exc # NoExc THEN Raise(first.exc, <<>>) ELSE
    Ok(InitialValueProblem(Fn(fname), initial_values, time_span,
                           EpidemicParameters(fname, kwargs, np_sum(np1.ret, first.val))),
       <<>>)

(* diffeqzoo.ivps.sir / seir / sird(initial_values=, time_span=, rates):
   initial_values defaults to a tuple and is always converted *)
dz_ivps_epidemic(fname, kwargs, self) ==
    LET given == Kw(kwargs, "initial_values", Tuple(Epidemic[fname].default))
        time_span == Kw(kwargs, "time_span", TimeSpan(0, 2000))
        np1 == numpy(self)
    IN
    IF np1.exc # NoExc THEN Raise(np1.exc, <<>>) ELSE
    LET initial_values == np_asarray(np1.ret, given)
        first == getitem0(initial_values)
    IN
    IF first.exc # NoExc THEN Raise(first.exc, <<>>) ELSE
    Ok(InitialValueProblem(Fn(fname), initial_values, time_span,
                           EpidemicParameters(fname, kwargs, np_sum(np1.ret, first.val))),
       <<>>)

(* the initial values a caller passes to an epidemic factory: arrays with
   one entry per compartment, an empty array, a tuple of numbers, or
   nothing *)
EpidemicInputs(fname, e) ==
    LET n == Len(Epidemic[fname].default) IN
    {y \in Vectors(e) : size(y) \in {0, n}}
        \cup {Tuple([i \in 1..n |-> IF i = 1 THEN 2 ELSE 1]), None}

(* the rate a caller may pass next to initial_values *)
EpidemicKwargs == {NoKwargs, [beta |-> 200]}

CallEpidemicFactory ==
    /\ tx = NoCall
    /\ \E pkg \in Packages : \E fname \in DOMAIN Epidemic : \E e \in installed :
       \E y \in EpidemicInputs(fname, e) : \E kw \in EpidemicKwargs :
          LET kwargs == IF y = None THEN kw ELSE WithInitialValues(kw, y) IN
          tx' = ZooCall(pkg, "epidemic", FactoryFn(fname), y, kwargs, RegistryOf(pkg),
                        IF pkg = "odezoo" THEN ivps_epidemic(fname, kwargs, oz_backend)
                        ELSE dz_ivps_epidemic(fname, kwargs, backend))
    /\ UNCHANGED <<backend, oz_backend, installed, located, last, prev, ncalls, threads, held>>

NextEpidemic ==
    \/ ZooSelect
    \/ ZooChangeTo
    \/ ZooOzSelect
    \/ ZooOzChangeTo
    \/ CallEpidemicFactory
    \/ ZooReturn

(* the epidemic factories of both packages and their registries *)
SpecEpidemic == Init /\ [][NextEpidemic]_vars

(* the compartments of the initial values of a record *)
Compartments(initial_values) ==
    IF IsArray(initial_values) THEN data(initial_values) ELSE initial_values.val

(* ================================ C30 ================================= *)
(* C30: population count of the epidemic models.  For every               *)
(* initial_values vector, the population_count that sir, seir and sird     *)
(* bind as the last entry of vector_field_args equals the sum of all       *)
(* compartments of initial_values; it is 1000 for the SIR default          *)
(* (998, 1, 1).                                                            *)
C30_PopulationCount ==
    (ZooIs("epidemic") /\ tx.exc = NoExc)
        => LET parameters == tx.val.vector_field_args.val
               population_count == parameters[Len(parameters)]
           IN  /\ data(population_count) = <<SumOf(Compartments(tx.val.initial_values))>>
               /\ (tx.fn = FactoryFn("sir") /\ tx.input = None)
                     => data(population_count) = <<1000>>
====
